---- MODULE Spec2Model ----
(***************************************************************************)
(* AI-Proxy-Protector: a forward proxy that intercepts TLS traffic to AI   *)
(* chat hosts, inspects chat submissions for PII and blocks or forwards.   *)
(*                                                                         *)
(* The repository holds three revisions of the proxy:                      *)
(*   "connect"  src/server.js 1-338      CONNECT router + handleAIPlatform  *)
(*   "https"    src/server.js 340-651    createProxyHandler/handleChatRequest*)
(*   "early"    src/unnamed/part_001     createProxyHandler/handleChatRequest*)
(* and the PII detector src/pii-detector.js.                               *)
(*                                                                         *)
(* Strings are sequences of one-character strings, so that length,         *)
(* substring search, trimming and regular-expression matching are computed *)
(* and not assumed.                                                        *)
(***************************************************************************)
EXTENDS Naturals, Integers, Sequences, FiniteSets, TLC

VARIABLES
    pii,      \* one call of PIIDetector.detectPII / quickPIICheck
    stats,    \* this.stats: requestsBlocked, requestsAllowed, piiDetections
    rq,       \* the HTTP request being handled by the express app
    conn,     \* the CONNECT connection being handled by handleConnect
    certDir,  \* certificates/<hostname>.crt and .key on disk
    tun,      \* the two sockets and byte streams of one handleRegularConnect tunnel
    cm        \* the runs of CertificateManager.setup in progress

vars == <<pii, stats, rq, conn, certDir, tun, cm>>

(***************************************************************************)
(* Strings                                                                 *)
(***************************************************************************)
Digit == {"0", "1", "2", "3", "4", "5", "6", "7", "8", "9"}
Lower == {"a", "b", "c", "d", "e", "f", "g", "h", "i", "j", "k", "l", "m",
          "n", "o", "p", "q", "r", "s", "t", "u", "v", "w", "x", "y", "z"}
Upper == {"A", "B", "C", "D", "E", "F", "G", "H", "I", "J", "K", "L", "M",
          "N", "O", "P", "Q", "R", "S", "T", "U", "V", "W", "X", "Y", "Z"}
\* \w of a JavaScript regular expression
WordChar == Digit \cup Lower \cup Upper \cup {"_"}
\* \s of a JavaScript regular expression, and what String.prototype.trim strips
WhiteSpace == {" ", "\t", "\n", "\r"}

\* String.prototype.includes: t occurs in s as a contiguous run
Includes(s, t) ==
    \E i \in 0 .. (Len(s) - Len(t)) : SubSeq(s, i + 1, i + Len(t)) = t

\* String.prototype.substring(0, n)
Substring0(s, n) == SubSeq(s, 1, IF Len(s) < n THEN Len(s) ELSE n)

RECURSIVE TrimStart(_)
TrimStart(s) ==
    IF s # <<>> /\ Head(s) \in WhiteSpace THEN TrimStart(Tail(s)) ELSE s

RECURSIVE TrimEnd(_)
TrimEnd(s) ==
    IF s # <<>> /\ s[Len(s)] \in WhiteSpace
    THEN TrimEnd(SubSeq(s, 1, Len(s) - 1))
    ELSE s

\* String.prototype.trim
Trim(s) == TrimEnd(TrimStart(s))

(***************************************************************************)
(* Regular expressions of quickPIICheck.  A pattern is a sequence of       *)
(* elements: a word boundary \b, or a character class repeated min..max    *)
(* times (max = -1: unbounded).  RegexEnds follows every way the pattern   *)
(* can consume the text, as a backtracking matcher does.                   *)
(***************************************************************************)
WB == [b |-> TRUE, cls |-> {}, min |-> 0, max |-> 0]
Rep(c, lo, hi) == [b |-> FALSE, cls |-> c, min |-> lo, max |-> hi]

IsWordAt(s, i) == i >= 1 /\ i <= Len(s) /\ s[i] \in WordChar

\* \b between the p-th and the (p+1)-th character
Boundary(s, p) == IsWordAt(s, p) # IsWordAt(s, p + 1)

RunOf(s, p, n, cls) == p + n <= Len(s) /\ \A j \in (p + 1) .. (p + n) : s[j] \in cls

RECURSIVE RegexEnds(_, _, _, _)
RegexEnds(pat, k, s, P) ==
    IF k > Len(pat) THEN P
    ELSE LET e == pat[k]
             hi(p) == IF e.max < 0 THEN Len(s) - p ELSE e.max
             next == IF e.b
                     THEN {p \in P : Boundary(s, p)}
                     ELSE UNION {{p + n : n \in {m \in e.min .. hi(p) :
                                                   RunOf(s, p, m, e.cls)}} : p \in P}
         IN RegexEnds(pat, k + 1, s, next)

\* RegExp.prototype.test without the sticky or global flag
RegexTest(pat, s) == RegexEnds(pat, 1, s, 0 .. Len(s)) # {}

SsnPattern ==
    <<WB, Rep(Digit, 3, 3), Rep({"-"}, 1, 1), Rep(Digit, 2, 2), Rep({"-"}, 1, 1),
      Rep(Digit, 4, 4), WB>>

CardSep == {"-"} \cup WhiteSpace
CardPattern ==
    <<WB, Rep(Digit, 4, 4), Rep(CardSep, 0, 1), Rep(Digit, 4, 4), Rep(CardSep, 0, 1),
      Rep(Digit, 4, 4), Rep(CardSep, 0, 1), Rep(Digit, 4, 4), WB>>

EmailLocal == Upper \cup Lower \cup Digit \cup {".", "_", "%", "+", "-"}
EmailDomain == Upper \cup Lower \cup Digit \cup {".", "-"}
EmailTld == Upper \cup Lower \cup {"|"}
EmailPattern ==
    <<WB, Rep(EmailLocal, 1, -1), Rep({"@"}, 1, 1), Rep(EmailDomain, 1, -1),
      Rep({"."}, 1, 1), Rep(EmailTld, 2, -1), WB>>

PhoneSep == {"-", "."}
PhonePattern ==
    <<WB, Rep(Digit, 3, 3), Rep(PhoneSep, 0, 1), Rep(Digit, 3, 3), Rep(PhoneSep, 0, 1),
      Rep(Digit, 4, 4), WB>>

IpPattern ==
    <<WB, Rep(Digit, 1, 3), Rep({"."}, 1, 1), Rep(Digit, 1, 3), Rep({"."}, 1, 1),
      Rep(Digit, 1, 3), Rep({"."}, 1, 1), Rep(Digit, 1, 3), WB>>

piiPatterns == {SsnPattern, CardPattern, EmailPattern, PhonePattern, IpPattern}

\* PIIDetector.quickPIICheck
quickPIICheck(text) == \E pattern \in piiPatterns : RegexTest(pattern, text)

(***************************************************************************)
(* Texts: the prompts and the classifier answers the model draws from      *)
(***************************************************************************)
\* "hi!!" (4 characters)
TxtHi == <<"h", "i", "!", "!">>
\* "a@b.co" (6 characters)
TxtShortMail == <<"a", "@", "b", ".", "c", "o">>
\* "helloworld" (10 characters)
TxtTen == <<"h", "e", "l", "l", "o", "w", "o", "r", "l", "d">>
\* "5551234567" (10 characters)
TxtPhoneTen == <<"5", "5", "5", "1", "2", "3", "4", "5", "6", "7">>
\* "hello world" (11 characters)
TxtEleven == <<"h", "e", "l", "l", "o", " ", "w", "o", "r", "l", "d">>
\* "hello there, how are you" (24 characters)
TxtHello == <<"h", "e", "l", "l", "o", " ", "t", "h", "e", "r", "e", ",", " ", "h", "o",
    "w", " ", "a", "r", "e", " ", "y", "o", "u">>
\* "my name is John Smith" (21 characters)
TxtName == <<"m", "y", " ", "n", "a", "m", "e", " ", "i", "s", " ", "J", "o", "h", "n",
    " ", "S", "m", "i", "t", "h">>
\* "contact me at a@b.com" (21 characters)
TxtEmail == <<"c", "o", "n", "t", "a", "c", "t", " ", "m", "e", " ", "a", "t", " ", "a",
    "@", "b", ".", "c", "o", "m">>
\* "ssn 123-45-6789" (15 characters)
TxtSsn == <<"s", "s", "n", " ", "1", "2", "3", "-", "4", "5", "-", "6", "7", "8", "9">>
\* "4111 1111 1111 1111" (19 characters)
TxtCard == <<"4", "1", "1", "1", " ", "1", "1", "1", "1", " ", "1", "1", "1", "1", " ",
    "1", "1", "1", "1">>
\* "10.0.0.1 is up" (14 characters)
TxtIp == <<"1", "0", ".", "0", ".", "0", ".", "1", " ", "i", "s", " ", "u", "p">>

Texts == {TxtHi, TxtShortMail, TxtTen, TxtPhoneTen, TxtEleven, TxtHello, TxtName,
          TxtEmail, TxtSsn, TxtCard, TxtIp}

\* the two tokens the classifier is told to answer with (pii-detector.js 20-21)
PII_DETECTED == <<"P", "I", "I", "_", "D", "E", "T", "E", "C", "T", "E", "D">>
NO_PII == <<"N", "O", "_", "P", "I", "I">>

AnswerCores ==
    {PII_DETECTED, NO_PII, <<>>,
     PII_DETECTED \o <<".">>,
     <<"\"">> \o PII_DETECTED \o <<"\"">>,
     NO_PII \o <<" ">> \o PII_DETECTED}
AnswerPads == {<<>>, <<" ">>, <<"\n">>, <<" ", "\n">>}
AnswerTexts == {l \o c \o r : l \in AnswerPads, c \in AnswerCores, r \in AnswerPads}

(***************************************************************************)
(* The classifier call of detectPII.  What fetch settles to:               *)
(*   kind "reject"    the promise rejects (transport error, abort)         *)
(*   kind "response"  an HTTP response with a status and a body            *)
(* The body is described by how far the structure                          *)
(* data.candidates[0].content.parts[0].text reaches.                       *)
(***************************************************************************)
Statuses == {200, 204, 301, 400, 429, 500}

BodyShapes ==
    {"malformed",        \* response.json() rejects
     "null",             \* the JSON value null
     "noCandidates",     \* {}
     "emptyCandidates",  \* {candidates: []}
     "noContent",        \* {candidates: [{}]}
     "noParts",          \* {candidates: [{content: {}}]}
     "emptyParts",       \* {candidates: [{content: {parts: []}}]}
     "noText",           \* {candidates: [{content: {parts: [{}]}}]}
     "numberText",       \* {candidates: [{content: {parts: [{text: 42}]}}]}
     "text"}             \* {candidates: [{content: {parts: [{text: "..."}]}}]}

Depth(shape) ==
    CASE shape = "malformed" -> 0
      [] shape = "null" -> 1
      [] shape = "noCandidates" -> 2
      [] shape = "emptyCandidates" -> 3
      [] shape = "noContent" -> 4
      [] shape = "noParts" -> 5
      [] shape = "emptyParts" -> 6
      [] shape = "noText" -> 7
      [] shape = "numberText" -> 8
      [] shape = "text" -> 9

FetchOutcomes ==
    {[kind |-> "reject", status |-> 0, shape |-> "malformed", text |-> <<>>]}
    \cup {[kind |-> "response", status |-> st, shape |-> sh, text |-> <<>>] :
             st \in Statuses, sh \in BodyShapes \ {"text"}}
    \cup {[kind |-> "response", status |-> st, shape |-> "text", text |-> t] :
             st \in Statuses, t \in AnswerTexts}

\* Response.ok
ResponseOk(o) == o.status >= 200 /\ o.status <= 299

\* data.candidates[0]?.content?.parts[0]?.text?.trim()  (pii-detector.js 42-43):
\* "throw" for a TypeError or a rejected response.json(), "undefined" where an
\* optional link short-circuits, else the trimmed text
ChainResult(o) ==
    LET d == Depth(o.shape)
    IN  IF d = 0 THEN "throw"                \* await response.json() rejects
        ELSE IF d = 1 THEN "throw"           \* null.candidates
        ELSE IF d = 2 THEN "throw"           \* undefined[0]
        ELSE IF d = 3 THEN "undefined"       \* candidates[0] is undefined: ?. stops
        ELSE IF d = 4 THEN "undefined"       \* content is undefined: ?. stops
        ELSE IF d = 5 THEN "throw"           \* content.parts is undefined: undefined[0]
        ELSE IF d = 6 THEN "undefined"       \* parts[0] is undefined: ?. stops
        ELSE IF d = 7 THEN "undefined"       \* text is undefined: ?. stops
        ELSE IF d = 8 THEN "throw"           \* (42).trim is not a function
        ELSE "string"

ResultText(o) == Trim(o.text)

\* the body of detectPII's try block (pii-detector.js 8-46): "true", "false", or
\* "throw"
TryDetect(o) ==
    IF o.kind = "reject" THEN "throw"
    ELSE IF ~ResponseOk(o) THEN "false"
    ELSE IF ChainResult(o) = "throw" THEN "throw"
    ELSE IF ChainResult(o) = "string" /\ ResultText(o) = PII_DETECTED THEN "true"
    ELSE "false"

detectPIINoCatch(o) == TryDetect(o)

\* PIIDetector.detectPII once fetch has settled to o: the catch turns every
\* throw into false
detectPII(o) == IF TryDetect(o) = "throw" THEN "false" ELSE TryDetect(o)

\* no call of detectPII is under way
NoCall == [pc |-> "off", outcome |-> CHOOSE o \in FetchOutcomes : o.kind = "reject",
           result |-> "none"]

(***************************************************************************)
(* JavaScript values that prompt extraction can return                     *)
(***************************************************************************)
Undef == [t |-> "undef", s |-> <<>>, n |-> 0]
Str(s) == [t |-> "str", s |-> s, n |-> Len(s)]
\* an array of k elements
Arr(k) == [t |-> "arr", s |-> <<>>, n |-> k]
Num(k) == [t |-> "num", s |-> <<>>, n |-> k]
Obj == [t |-> "obj", s |-> <<>>, n |-> 0]
EmptyStr == Str(<<>>)

\* ToBoolean
Truthy(v) ==
    CASE v.t = "undef" -> FALSE
      [] v.t = "str" -> v.s # <<>>
      [] v.t = "num" -> v.n # 0
      [] OTHER -> TRUE

\* v.length >= k
LengthGE(v, k) == v.t \in {"str", "arr"} /\ v.n >= k

\* v.length > k: strings and arrays have a length, undefined > k is false
LengthGT(v, k) == v.t \in {"str", "arr"} /\ v.n > k

\* v.substring(...) is callable only on a string; otherwise a TypeError
HasSubstring(v) == v.t = "str"

\* x || ''
OrEmpty(v) == IF Truthy(v) THEN v ELSE EmptyStr

(***************************************************************************)
(* Request bodies.  raw is the text the client sends; kind says what       *)
(* JSON.parse makes of it ("invalid": it throws) and the other fields are  *)
(* the members of the parsed object ("messages" holds the content member   *)
(* of each element).                                                       *)
(***************************************************************************)
BodyNone ==
    [raw |-> <<>>, kind |-> "invalid", messagesKind |-> "undef", messages |-> <<>>,
     prompt |-> Undef, input |-> Undef, text |-> Undef, query |-> Undef]
\* {"prompt":"contact me at a@b.com"}
BodyEmail == [raw |-> <<"{", "\"", "p", "r", "o", "m", "p", "t", "\"", ":", "\"", "c",
    "o", "n", "t", "a", "c", "t", " ", "m", "e", " ", "a", "t", " ", "a", "@", "b", ".", "c",
    "o", "m", "\"", "}">>, kind |-> "object", messagesKind |-> "undef", messages |-> <<>>,
    prompt |-> Str(<<"c", "o", "n", "t", "a", "c", "t", " ", "m", "e", " ", "a", "t", " ",
    "a", "@", "b", ".", "c", "o", "m">>), input |-> Undef, text |-> Undef, query |-> Undef]
\* {"prompt":"hello there, how are you"}
BodyHello == [raw |-> <<"{", "\"", "p", "r", "o", "m", "p", "t", "\"", ":", "\"", "h",
    "e", "l", "l", "o", " ", "t", "h", "e", "r", "e", ",", " ", "h", "o", "w", " ", "a", "r",
    "e", " ", "y", "o", "u", "\"", "}">>, kind |-> "object", messagesKind |-> "undef",
    messages |-> <<>>, prompt |-> Str(<<"h", "e", "l", "l", "o", " ", "t", "h", "e", "r", "e",
    ",", " ", "h", "o", "w", " ", "a", "r", "e", " ", "y", "o", "u">>), input |-> Undef, text
    |-> Undef, query |-> Undef]
\* {"prompt":"hi!!"}
BodyHi == [raw |-> <<"{", "\"", "p", "r", "o", "m", "p", "t", "\"", ":", "\"", "h", "i",
    "!", "!", "\"", "}">>, kind |-> "object", messagesKind |-> "undef", messages |-> <<>>,
    prompt |-> Str(<<"h", "i", "!", "!">>), input |-> Undef, text |-> Undef, query |-> Undef]
\* {"prompt":"helloworld"}
BodyTen == [raw |-> <<"{", "\"", "p", "r", "o", "m", "p", "t", "\"", ":", "\"", "h", "e",
    "l", "l", "o", "w", "o", "r", "l", "d", "\"", "}">>, kind |-> "object", messagesKind |->
    "undef", messages |-> <<>>, prompt |-> Str(<<"h", "e", "l", "l", "o", "w", "o", "r", "l",
    "d">>), input |-> Undef, text |-> Undef, query |-> Undef]
\* {"prompt":"5551234567"}
BodyPhoneTen == [raw |-> <<"{", "\"", "p", "r", "o", "m", "p", "t", "\"", ":", "\"", "5",
    "5", "5", "1", "2", "3", "4", "5", "6", "7", "\"", "}">>, kind |-> "object", messagesKind
    |-> "undef", messages |-> <<>>, prompt |-> Str(<<"5", "5", "5", "1", "2", "3", "4", "5",
    "6", "7">>), input |-> Undef, text |-> Undef, query |-> Undef]
\* {"prompt":"hello world"}
BodyEleven == [raw |-> <<"{", "\"", "p", "r", "o", "m", "p", "t", "\"", ":", "\"", "h",
    "e", "l", "l", "o", " ", "w", "o", "r", "l", "d", "\"", "}">>, kind |-> "object",
    messagesKind |-> "undef", messages |-> <<>>, prompt |-> Str(<<"h", "e", "l", "l", "o",
    " ", "w", "o", "r", "l", "d">>), input |-> Undef, text |-> Undef, query |-> Undef]
\* {"prompt":"my name is John Smith"}
BodyName == [raw |-> <<"{", "\"", "p", "r", "o", "m", "p", "t", "\"", ":", "\"", "m", "y",
    " ", "n", "a", "m", "e", " ", "i", "s", " ", "J", "o", "h", "n", " ", "S", "m", "i", "t",
    "h", "\"", "}">>, kind |-> "object", messagesKind |-> "undef", messages |-> <<>>, prompt
    |-> Str(<<"m", "y", " ", "n", "a", "m", "e", " ", "i", "s", " ", "J", "o", "h", "n", " ",
    "S", "m", "i", "t", "h">>), input |-> Undef, text |-> Undef, query |-> Undef]
\* {"messages":[{"content":"hello there, how are you"},{"content":"contact me at a@b.com"}]}
BodyMsgsLastEmail == [raw |-> <<"{", "\"", "m", "e", "s", "s", "a", "g", "e", "s", "\"",
    ":", "[", "{", "\"", "c", "o", "n", "t", "e", "n", "t", "\"", ":", "\"", "h", "e", "l",
    "l", "o", " ", "t", "h", "e", "r", "e", ",", " ", "h", "o", "w", " ", "a", "r", "e", " ",
    "y", "o", "u", "\"", "}", ",", "{", "\"", "c", "o", "n", "t", "e", "n", "t", "\"", ":",
    "\"", "c", "o", "n", "t", "a", "c", "t", " ", "m", "e", " ", "a", "t", " ", "a", "@", "b",
    ".", "c", "o", "m", "\"", "}", "]", "}">>, kind |-> "object", messagesKind |-> "array",
    messages |-> <<Str(<<"h", "e", "l", "l", "o", " ", "t", "h", "e", "r", "e", ",", " ", "h",
    "o", "w", " ", "a", "r", "e", " ", "y", "o", "u">>), Str(<<"c", "o", "n", "t", "a", "c",
    "t", " ", "m", "e", " ", "a", "t", " ", "a", "@", "b", ".", "c", "o", "m">>)>>, prompt |->
    Undef, input |-> Undef, text |-> Undef, query |-> Undef]
\* {"messages":[{"content":"contact me at a@b.com"},{"content":"hi!!"}]}
BodyMsgsLastHi == [raw |-> <<"{", "\"", "m", "e", "s", "s", "a", "g", "e", "s", "\"", ":",
    "[", "{", "\"", "c", "o", "n", "t", "e", "n", "t", "\"", ":", "\"", "c", "o", "n", "t",
    "a", "c", "t", " ", "m", "e", " ", "a", "t", " ", "a", "@", "b", ".", "c", "o", "m", "\"",
    "}", ",", "{", "\"", "c", "o", "n", "t", "e", "n", "t", "\"", ":", "\"", "h", "i", "!",
    "!", "\"", "}", "]", "}">>, kind |-> "object", messagesKind |-> "array", messages |->
    <<Str(<<"c", "o", "n", "t", "a", "c", "t", " ", "m", "e", " ", "a", "t", " ", "a", "@",
    "b", ".", "c", "o", "m">>), Str(<<"h", "i", "!", "!">>)>>, prompt |-> Undef, input |->
    Undef, text |-> Undef, query |-> Undef]
\* {"messages":[]}
BodyMsgsEmpty == [raw |-> <<"{", "\"", "m", "e", "s", "s", "a", "g", "e", "s", "\"", ":",
    "[", "]", "}">>, kind |-> "object", messagesKind |-> "array", messages |-> <<>>, prompt
    |-> Undef, input |-> Undef, text |-> Undef, query |-> Undef]
\* {"messages":[{"role":"user"}],"prompt":"contact me at a@b.com"}
BodyMsgsNoContent == [raw |-> <<"{", "\"", "m", "e", "s", "s", "a", "g", "e", "s", "\"",
    ":", "[", "{", "\"", "r", "o", "l", "e", "\"", ":", "\"", "u", "s", "e", "r", "\"", "}",
    "]", ",", "\"", "p", "r", "o", "m", "p", "t", "\"", ":", "\"", "c", "o", "n", "t", "a",
    "c", "t", " ", "m", "e", " ", "a", "t", " ", "a", "@", "b", ".", "c", "o", "m", "\"",
    "}">>, kind |-> "object", messagesKind |-> "array", messages |-> <<Undef>>, prompt |->
    Str(<<"c", "o", "n", "t", "a", "c", "t", " ", "m", "e", " ", "a", "t", " ", "a", "@", "b",
    ".", "c", "o", "m">>), input |-> Undef, text |-> Undef, query |-> Undef]
\* {"messages":[{"content":[{"type":"text","text":"contact me at a@b.com"}]}]}
BodyMsgsParts == [raw |-> <<"{", "\"", "m", "e", "s", "s", "a", "g", "e", "s", "\"", ":",
    "[", "{", "\"", "c", "o", "n", "t", "e", "n", "t", "\"", ":", "[", "{", "\"", "t", "y",
    "p", "e", "\"", ":", "\"", "t", "e", "x", "t", "\"", ",", "\"", "t", "e", "x", "t", "\"",
    ":", "\"", "c", "o", "n", "t", "a", "c", "t", " ", "m", "e", " ", "a", "t", " ", "a", "@",
    "b", ".", "c", "o", "m", "\"", "}", "]", "}", "]", "}">>, kind |-> "object", messagesKind
    |-> "array", messages |-> <<Arr(1)>>, prompt |-> Undef, input |-> Undef, text |-> Undef,
    query |-> Undef]
\* {"messages":"see prompt","prompt":"contact me at a@b.com"}
BodyMsgsString == [raw |-> <<"{", "\"", "m", "e", "s", "s", "a", "g", "e", "s", "\"", ":",
    "\"", "s", "e", "e", " ", "p", "r", "o", "m", "p", "t", "\"", ",", "\"", "p", "r", "o",
    "m", "p", "t", "\"", ":", "\"", "c", "o", "n", "t", "a", "c", "t", " ", "m", "e", " ",
    "a", "t", " ", "a", "@", "b", ".", "c", "o", "m", "\"", "}">>, kind |-> "object",
    messagesKind |-> "other", messages |-> <<>>, prompt |-> Str(<<"c", "o", "n", "t", "a",
    "c", "t", " ", "m", "e", " ", "a", "t", " ", "a", "@", "b", ".", "c", "o", "m">>), input
    |-> Undef, text |-> Undef, query |-> Undef]
\* {"prompt":[1,2,3,4,5,6,7,8,9,10,11]}
BodyPromptArray == [raw |-> <<"{", "\"", "p", "r", "o", "m", "p", "t", "\"", ":", "[",
    "1", ",", "2", ",", "3", ",", "4", ",", "5", ",", "6", ",", "7", ",", "8", ",", "9", ",",
    "1", "0", ",", "1", "1", "]", "}">>, kind |-> "object", messagesKind |-> "undef", messages
    |-> <<>>, prompt |-> Arr(11), input |-> Undef, text |-> Undef, query |-> Undef]
\* {"prompt":123456789}
BodyPromptNumber == [raw |-> <<"{", "\"", "p", "r", "o", "m", "p", "t", "\"", ":", "1",
    "2", "3", "4", "5", "6", "7", "8", "9", "}">>, kind |-> "object", messagesKind |->
    "undef", messages |-> <<>>, prompt |-> Num(123456789), input |-> Undef, text |-> Undef,
    query |-> Undef]
\* {"prompt":"hello world","input":"ssn 123-45-6789"}
BodyPromptInput == [raw |-> <<"{", "\"", "p", "r", "o", "m", "p", "t", "\"", ":", "\"",
    "h", "e", "l", "l", "o", " ", "w", "o", "r", "l", "d", "\"", ",", "\"", "i", "n", "p",
    "u", "t", "\"", ":", "\"", "s", "s", "n", " ", "1", "2", "3", "-", "4", "5", "-", "6",
    "7", "8", "9", "\"", "}">>, kind |-> "object", messagesKind |-> "undef", messages |->
    <<>>, prompt |-> Str(<<"h", "e", "l", "l", "o", " ", "w", "o", "r", "l", "d">>), input |->
    Str(<<"s", "s", "n", " ", "1", "2", "3", "-", "4", "5", "-", "6", "7", "8", "9">>), text
    |-> Undef, query |-> Undef]
\* {"input":"ssn 123-45-6789"}
BodyInput == [raw |-> <<"{", "\"", "i", "n", "p", "u", "t", "\"", ":", "\"", "s", "s",
    "n", " ", "1", "2", "3", "-", "4", "5", "-", "6", "7", "8", "9", "\"", "}">>, kind |->
    "object", messagesKind |-> "undef", messages |-> <<>>, prompt |-> Undef, input |->
    Str(<<"s", "s", "n", " ", "1", "2", "3", "-", "4", "5", "-", "6", "7", "8", "9">>), text
    |-> Undef, query |-> Undef]
\* {"text":"10.0.0.1 is up"}
BodyText == [raw |-> <<"{", "\"", "t", "e", "x", "t", "\"", ":", "\"", "1", "0", ".", "0",
    ".", "0", ".", "1", " ", "i", "s", " ", "u", "p", "\"", "}">>, kind |-> "object",
    messagesKind |-> "undef", messages |-> <<>>, prompt |-> Undef, input |-> Undef, text |->
    Str(<<"1", "0", ".", "0", ".", "0", ".", "1", " ", "i", "s", " ", "u", "p">>), query |->
    Undef]
\* {"query":"ssn 123-45-6789"}
BodyQuery == [raw |-> <<"{", "\"", "q", "u", "e", "r", "y", "\"", ":", "\"", "s", "s",
    "n", " ", "1", "2", "3", "-", "4", "5", "-", "6", "7", "8", "9", "\"", "}">>, kind |->
    "object", messagesKind |-> "undef", messages |-> <<>>, prompt |-> Undef, input |-> Undef,
    text |-> Undef, query |-> Str(<<"s", "s", "n", " ", "1", "2", "3", "-", "4", "5", "-",
    "6", "7", "8", "9">>)]
\* null
BodyNull == [raw |-> <<"n", "u", "l", "l">>, kind |-> "null", messagesKind |-> "undef",
    messages |-> <<>>, prompt |-> Undef, input |-> Undef, text |-> Undef, query |-> Undef]
\* 42
BodyNumber == [raw |-> <<"4", "2">>, kind |-> "primitive", messagesKind |-> "undef",
    messages |-> <<>>, prompt |-> Undef, input |-> Undef, text |-> Undef, query |-> Undef]
\* card=4111 1111 1111 1111
BodyForm == [raw |-> <<"c", "a", "r", "d", "=", "4", "1", "1", "1", " ", "1", "1", "1",
    "1", " ", "1", "1", "1", "1", " ", "1", "1", "1", "1">>, kind |-> "invalid", messagesKind
    |-> "undef", messages |-> <<>>, prompt |-> Undef, input |-> Undef, text |-> Undef, query
    |-> Undef]
\* a@b.co
BodyShortRaw == [raw |-> <<"a", "@", "b", ".", "c", "o">>, kind |-> "invalid",
    messagesKind |-> "undef", messages |-> <<>>, prompt |-> Undef, input |-> Undef, text |->
    Undef, query |-> Undef]
\* the 12 bytes of "hello", U+00E9, "world" in UTF-8 (not JSON); C3 A9 encode U+00E9
BodyAccent == [raw |-> <<"h", "e", "l", "l", "o", "C3", "A9", "w", "o", "r", "l", "d">>,
    kind |-> "invalid", messagesKind |-> "undef", messages |-> <<>>, prompt |-> Undef,
    input |-> Undef, text |-> Undef, query |-> Undef]

Bodies == {BodyEmail, BodyHello, BodyHi, BodyTen, BodyPhoneTen, BodyEleven, BodyName,
           BodyMsgsLastEmail, BodyMsgsLastHi, BodyMsgsEmpty, BodyMsgsNoContent, BodyMsgsParts,
           BodyMsgsString, BodyPromptArray, BodyPromptNumber, BodyPromptInput, BodyInput, BodyText,
           BodyQuery, BodyNull, BodyNumber, BodyForm, BodyShortRaw, BodyAccent}

\* body.substring(0, 1000)
SubstringLimit == 1000

\* prompt.length > 10
MinPromptLength == 10

\* messages[messages.length - 1]?.content || ''
LastContent(body) ==
    IF Len(body.messages) = 0 THEN EmptyStr
    ELSE OrEmpty(body.messages[Len(body.messages)])

\* extractPrompt of the CONNECT revision (server.js 208-226)
extractPromptConnect(body) ==
    IF body.kind \in {"invalid", "null"}
    THEN Str(Substring0(body.raw, SubstringLimit))   \* catch: JSON.parse or null.messages threw
    ELSE IF body.messagesKind = "array" THEN LastContent(body)
    ELSE IF Truthy(body.prompt) THEN body.prompt
    ELSE IF Truthy(body.input) THEN body.input
    ELSE IF Truthy(body.text) THEN body.text
    ELSE EmptyStr

\* extractPrompt of the HTTPS revision (server.js 536-562)
extractPromptHttps(body) ==
    IF body.kind \in {"invalid", "null"}
    THEN Str(Substring0(body.raw, SubstringLimit))
    ELSE IF body.messagesKind = "array" THEN LastContent(body)
    ELSE IF Truthy(body.prompt) THEN body.prompt
    ELSE IF Truthy(body.input) THEN body.input
    ELSE IF Truthy(body.text) THEN body.text
    ELSE IF Truthy(body.query) THEN body.query
    ELSE EmptyStr

\* extractPrompt of the early revision (part_001 174-199): any truthy messages
\* member is indexed (a non-array one yields no content), and the catch returns ''
extractPromptEarly(body) ==
    IF body.kind \in {"invalid", "null"} THEN EmptyStr
    ELSE IF body.messagesKind = "array" THEN LastContent(body)
    ELSE IF body.messagesKind = "other" THEN EmptyStr
    ELSE IF Truthy(body.prompt) THEN body.prompt
    ELSE IF Truthy(body.input) THEN body.input
    ELSE EmptyStr

extractPrompt(variant, body) ==
    CASE variant = "connect" -> extractPromptConnect(body)
      [] variant = "https" -> extractPromptHttps(body)
      [] variant = "early" -> extractPromptEarly(body)

(***************************************************************************)
(* Hosts and paths                                                         *)
(***************************************************************************)
HostChatOpenai == <<"c", "h", "a", "t", ".", "o", "p", "e", "n", "a", "i", ".", "c", "o", "m">>
HostClaude == <<"c", "l", "a", "u", "d", "e", ".", "a", "i">>
HostBard == <<"b", "a", "r", "d", ".", "g", "o", "o", "g", "l", "e", ".", "c", "o", "m">>
HostCopilot ==
    <<"c", "o", "p", "i", "l", "o", "t", ".", "m", "i", "c", "r", "o", "s", "o", "f", "t",
      ".", "c", "o", "m">>
HostGemini ==
    <<"g", "e", "m", "i", "n", "i", ".", "g", "o", "o", "g", "l", "e", ".", "c", "o", "m">>
HostExample == <<"e", "x", "a", "m", "p", "l", "e", ".", "c", "o", "m">>

\* this.aiPlatforms of the CONNECT revision (server.js 39-45)
aiPlatforms == {HostChatOpenai, HostClaude, HostBard, HostCopilot, HostGemini}

\* the platforms enabled in config.aiPlatforms (server.js 398-403, part_001 47-52)
configPlatforms == {HostChatOpenai, HostClaude, HostBard, HostCopilot}

\* aiPlatforms.some(platform => host.includes(platform))
isAIPlatform(platforms, host) == \E platform \in platforms : Includes(host, platform)

EpConversation ==
    <<"/", "b", "a", "c", "k", "e", "n", "d", "-", "a", "p", "i", "/", "c", "o", "n", "v",
      "e", "r", "s", "a", "t", "i", "o", "n">>
EpOrganizations ==
    <<"/", "a", "p", "i", "/", "o", "r", "g", "a", "n", "i", "z", "a", "t", "i", "o", "n",
      "s", "/">>
EpCompletions ==
    <<"/", "v", "1", "/", "c", "h", "a", "t", "/", "c", "o", "m", "p", "l", "e", "t", "i",
      "o", "n", "s">>
EpGenerate == <<"/", "a", "p", "i", "/", "g", "e", "n", "e", "r", "a", "t", "e">>

\* chatEndpoints (server.js 198-203 and 480-485; part_001 111-115 has no /api/generate)
chatEndpoints(variant) ==
    IF variant = "early"
    THEN {EpConversation, EpOrganizations, EpCompletions}
    ELSE {EpConversation, EpOrganizations, EpCompletions, EpGenerate}

\* isChatEndpoint: chatEndpoints.some(endpoint => url.includes(endpoint))
isChatEndpoint(variant, url) == \E endpoint \in chatEndpoints(variant) : Includes(url, endpoint)

Variants == {"connect", "https", "early"}

platformsOf(variant) == IF variant = "connect" THEN aiPlatforms ELSE configPlatforms

(***************************************************************************)
(* Inputs of the inspection pipeline                                       *)
(***************************************************************************)
UrlStatic == <<"/", "s", "t", "a", "t", "i", "c", "/", "a", "p", "p", ".", "j", "s">>
Urls ==
    {EpCompletions,
     EpGenerate,
     <<"/", "p", "r", "o", "x", "y">> \o EpCompletions \o <<"?", "s", "=", "1">>,
     UrlStatic}

\* the Host header; <<>> when the request carries none
RequestHosts ==
    {<<>>, HostClaude, HostGemini, <<"n", "o", "t">> \o HostClaude, HostExample}

\* bound: requests handled one after the other in one run
MaxRequests == 2

Count(ev, e) == Cardinality({i \in 1 .. Len(ev) : ev[i] = e})

IdleRequest ==
    [pc |-> "idle", n |-> 0, variant |-> "connect", method |-> "GET", url |-> <<>>,
     host |-> <<>>, contentJson |-> FALSE, body |-> BodyNone, consumed |-> FALSE,
     buf |-> <<>>, pending |-> <<>>, prompt |-> Undef, verdict |-> "none", ev |-> <<>>,
     stats0 |-> [requestsBlocked |-> 0, requestsAllowed |-> 0, piiDetections |-> 0],
     status |-> "none", rejected |-> FALSE, sent |-> <<>>, clen |-> 0,
     fwd |-> "none", headersSent |-> FALSE, resp |-> <<>>, tries |-> 0, err |-> "none"]

ZeroStats == [requestsBlocked |-> 0, requestsAllowed |-> 0, piiDetections |-> 0]

\* no CONNECT is being handled (conn is described with the CONNECT router)
OffConn ==
    [pc |-> "off", n |-> 0, hostname |-> <<>>, route |-> "none", log |-> <<>>,
     up |-> <<>>, failed |-> "no", leaf |-> {}]

IdleConn == [OffConn EXCEPT !.pc = "idle"]

\* a socket as the proxy holds it: r, no end-of-stream was read yet; w, end() was
\* not called yet; d, destroyed
OpenSocket == [r |-> TRUE, w |-> TRUE, d |-> FALSE]

\* no tunnel is being relayed (tun is described with the tunnel relay)
OffTunnel ==
    [pc |-> "off", cs |-> OpenSocket, us |-> OpenSocket, head |-> <<>>,
     sentC |-> <<>>, cBuf |-> <<>>, cFin |-> FALSE,
     sentU |-> <<>>, uBuf |-> <<>>, uFin |-> FALSE,
     toUp |-> <<>>, toCl |-> <<>>]

\* CertificateManager.setup is not running (cm is described with the manager)
OffCM == [pc |-> "off"]

(***************************************************************************)
(* A request reaches the express app.                                      *)
(***************************************************************************)
Arrive(variant, method, url, host, contentJson, body) ==
    /\ rq.pc = "idle"
    /\ rq.n < MaxRequests
    /\ rq' = [IdleRequest EXCEPT !.pc = "received", !.n = rq.n + 1, !.variant = variant,
                                 !.method = method, !.url = url, !.host = host,
                                 !.contentJson = contentJson, !.body = body,
                                 !.pending = body.raw, !.stats0 = stats,
                                 !.clen = Len(body.raw)]
    /\ UNCHANGED <<pii, stats, conn, certDir, tun, cm>>

\* the response is finished; req and res of the next request are fresh objects
\* (http.createServer(this.app), server.js 302), and this.stats lives on
Finish ==
    /\ rq.pc = "done"
    /\ rq' = [IdleRequest EXCEPT !.n = rq.n]
    /\ UNCHANGED <<pii, stats, conn, certDir, tun, cm>>

\* express.json({limit: '10mb'}) (server.js 64, 413; part_001 62): a body declared
\* as JSON is read to its end here; in strict mode only an object or an array is
\* accepted, anything else is answered 400 by the error handler
ExpressJson ==
    /\ rq.pc = "received"
    /\ IF rq.contentJson /\ rq.body.raw # <<>>
       THEN IF rq.body.kind = "object"
            THEN rq' = [rq EXCEPT !.pc = "routing", !.consumed = TRUE, !.pending = <<>>]
            ELSE rq' = [rq EXCEPT !.pc = "done", !.status = "400", !.pending = <<>>]
       ELSE rq' = [rq EXCEPT !.pc = "routing"]
    /\ UNCHANGED <<pii, stats, conn, certDir, tun, cm>>

\* the request is handed to an upstream forwarder (proxyRegularWebsite,
\* forwardRequest, proxyRequest, proxyRequestWithBody)
Forwarded(r) == [r EXCEPT !.ev = Append(@, "forward"), !.status = "upstream"]

\* server.js 84-101 and 104-111, 148-151: the catch-all route and handleAIPlatform
\* up to the registration of the 'data' and 'end' listeners
CatchAllConnect ==
    /\ rq.pc = "routing" /\ rq.variant = "connect"
    /\ IF rq.host = <<>>
       THEN rq' = [rq EXCEPT !.pc = "done", !.status = "400"]
       ELSE IF isAIPlatform(aiPlatforms, rq.host)
                /\ rq.method = "POST" /\ isChatEndpoint("connect", rq.url)
            THEN rq' = [rq EXCEPT !.pc = "buffering"]
            ELSE rq' = [Forwarded(rq) EXCEPT !.pc = "done"]
    /\ UNCHANGED <<pii, stats, conn, certDir, tun, cm>>

\* server.js 455-476 and 490-495
ProxyHandlerHttps ==
    /\ rq.pc = "routing" /\ rq.variant = "https"
    /\ IF ~(rq.host # <<>> /\ isAIPlatform(configPlatforms, rq.host))
       THEN rq' = [rq EXCEPT !.pc = "done", !.status = "404"]
       ELSE IF rq.method = "POST" /\ isChatEndpoint("https", rq.url)
            THEN rq' = [rq EXCEPT !.pc = "buffering"]
            ELSE rq' = [Forwarded(rq) EXCEPT !.pc = "done"]
    /\ UNCHANGED <<pii, stats, conn, certDir, tun, cm>>

\* part_001 87-107 and 120-127, 166: handleChatRequest registers the listeners and
\* returns false at once, so the handler goes on to proxyRequest (line 106)
ProxyHandlerEarly ==
    /\ rq.pc = "routing" /\ rq.variant = "early"
    /\ IF ~(rq.host # <<>> /\ isAIPlatform(configPlatforms, rq.host))
       THEN rq' = [rq EXCEPT !.pc = "done", !.status = "404"]   \* next(): no route left
       ELSE IF rq.method = "POST" /\ isChatEndpoint("early", rq.url)
            THEN rq' = [Forwarded(rq) EXCEPT !.pc = "buffering"]
            ELSE rq' = [Forwarded(rq) EXCEPT !.pc = "done"]
    /\ UNCHANGED <<pii, stats, conn, certDir, tun, cm>>

\* where a 'data' event may cut the rest of the body
Cuts(rest) == {Len(rest)} \cup (IF Len(rest) > 1 THEN {Len(rest) \div 2} ELSE {})

\* chunk.toString(): the bytes of one chunk decoded as UTF-8.  A lead byte whose
\* continuation byte is not in the chunk, and a continuation byte without its lead
\* byte, each decode to U+FFFD.
Decoded(chunk, i) ==
    IF chunk[i] = "C3" /\ i < Len(chunk) /\ chunk[i + 1] = "A9" THEN "U+00E9"
    ELSE IF chunk[i] = "A9" /\ i > 1 /\ chunk[i - 1] = "C3" THEN "none"
    ELSE IF chunk[i] \in {"C3", "A9"} THEN "U+FFFD"
    ELSE chunk[i]

IsUnit(c) == c # "none"

chunkToString(chunk) ==
    SelectSeq([i \in 1 .. Len(chunk) |-> Decoded(chunk, i)], IsUnit)

\* the bytes of one character in UTF-8, filled up to three places
Utf8(c) ==
    CASE c = "U+00E9" -> <<"C3", "A9", "none">>
      [] c = "U+FFFD" -> <<"EF", "BF", "BD">>
      [] OTHER -> <<c, "none", "none">>

\* the bytes written for a string: proxyReq.write(body) encodes it as UTF-8
ByteEncode(str) ==
    SelectSeq([i \in 1 .. 3 * Len(str) |->
                   Utf8(str[((i - 1) \div 3) + 1])[((i - 1) % 3) + 1]], IsUnit)

\* Buffer.byteLength(body)
ByteLength(str) == Len(ByteEncode(str))

\* the string the 'end' listener hands to extractPrompt: what JSON.parse makes of
\* it is in rq.body, its text is the buffer
Buffered(r) == [r.body EXCEPT !.raw = r.buf]

\* req.on('data', chunk => { body += chunk.toString(); })
OnData ==
    /\ rq.pc = "buffering" /\ ~rq.consumed /\ rq.pending # <<>>
    /\ \E k \in (IF rq.buf = <<>> THEN Cuts(rq.pending) ELSE {Len(rq.pending)}) :
          rq' = [rq EXCEPT !.buf = @ \o chunkToString(SubSeq(rq.pending, 1, k)),
                           !.pending = SubSeq(rq.pending, k + 1, Len(rq.pending))]
    /\ UNCHANGED <<pii, stats, conn, certDir, tun, cm>>

(***************************************************************************)
(* The 'end' listeners.  A call of a forwarder may throw synchronously     *)
(* (thr1 for the first call of a handler, thr2 for the call made by its    *)
(* catch block); each call is recorded as "forward", a throw as "threw".   *)
(* A throw that no try block catches rejects the async listener's promise  *)
(* (rejected).                                                             *)
(***************************************************************************)
Inc(s, field) == [s EXCEPT ![field] = @ + 1]

\* server.js 173-195, 564-584 and part_001 201-217: onProxyReq writes the buffered
\* string when it is not empty; the forwarders of server.js set Content-Length to
\* its byte length, the one of part_001 leaves the client's header
ForwardCall(r, thr) ==
    IF thr
    THEN [r EXCEPT !.ev = @ \o <<"forward", "threw">>]
    ELSE [r EXCEPT !.ev = Append(@, "forward"), !.status = "upstream",
                   !.sent = ByteEncode(r.buf),
                   !.clen = IF r.buf # <<>> /\ r.variant # "early"
                            THEN ByteLength(r.buf) ELSE @]

\* a forwarder call outside any try block, or inside a catch block
LastForward(r, thr) ==
    [ForwardCall(r, thr) EXCEPT !.pc = "done", !.rejected = thr]

\* server.js 143-146: the catch block of handleAIPlatform
CatchConnect(r, s, thr2) ==
    /\ rq' = LastForward([r EXCEPT !.ev = Append(@, "catch")], thr2)
    /\ stats' = s

\* server.js 137-146: the allowed path of handleAIPlatform
AllowConnect(r, thr1, thr2) ==
    IF thr1
    THEN CatchConnect(ForwardCall(r, TRUE), Inc(stats, "requestsAllowed"), thr2)
    ELSE /\ rq' = LastForward(r, FALSE)
         /\ stats' = Inc(stats, "requestsAllowed")

\* server.js 528-532: the catch block of handleChatRequest
CatchHttps(r, s, thr2) ==
    /\ rq' = LastForward([r EXCEPT !.ev = Append(@, "catch")], thr2)
    /\ stats' = Inc(s, "requestsAllowed")

\* server.js 522-532: the allowed path of handleChatRequest
AllowHttps(r, thr1, thr2) ==
    IF thr1
    THEN CatchHttps(ForwardCall(r, TRUE), Inc(stats, "requestsAllowed"), thr2)
    ELSE /\ rq' = LastForward(r, FALSE)
         /\ stats' = Inc(stats, "requestsAllowed")

\* part_001 159-163: the allowed path of the early handleChatRequest; the listener
\* runs outside the try block of lines 121-171
AllowEarly(r, thr1) ==
    /\ rq' = LastForward(r, thr1)
    /\ stats' = Inc(stats, "requestsAllowed")

\* server.js 123-133, 507-518: the blocked path
Block(r) ==
    /\ rq' = [r EXCEPT !.pc = "done", !.status = "403", !.ev = Append(@, "respond403")]
    /\ stats' = Inc(Inc(stats, "requestsBlocked"), "piiDetections")

\* part_001 143-156: the blocked path of the early revision; res.json throws when
\* the response proxied since line 106 has already sent its headers
BlockEarly(r, headersSent) ==
    /\ rq' = IF headersSent
             THEN [r EXCEPT !.pc = "done", !.rejected = TRUE, !.ev = Append(@, "threw")]
             ELSE [r EXCEPT !.pc = "done", !.status = "403", !.ev = Append(@, "respond403")]
    /\ stats' = Inc(Inc(stats, "requestsBlocked"), "piiDetections")

\* the call of detectPII: fetch is issued and the listener awaits it
CallDetect(r) == [r EXCEPT !.pc = "awaitDetect", !.ev = Append(@, "detect")]

\* server.js 113-147, up to the await of line 120
EndConnect ==
    /\ rq.pc = "buffering" /\ rq.variant = "connect"
    /\ ~rq.consumed /\ rq.pending = <<>>
    /\ LET prompt == extractPrompt("connect", Buffered(rq))
           r == [rq EXCEPT !.prompt = prompt, !.ev = Append(@, "extract")]
       IN  IF Truthy(prompt) /\ LengthGT(prompt, MinPromptLength)
           THEN IF HasSubstring(prompt)
                THEN rq' = CallDetect(r) /\ UNCHANGED stats
                ELSE \E thr2 \in BOOLEAN : CatchConnect(r, stats, thr2)
           ELSE \E thr1, thr2 \in BOOLEAN : AllowConnect(r, thr1, thr2)
    /\ UNCHANGED <<pii, conn, certDir, tun, cm>>

\* server.js 497-533, up to the await of line 504
EndHttps ==
    /\ rq.pc = "buffering" /\ rq.variant = "https"
    /\ ~rq.consumed /\ rq.pending = <<>>
    /\ LET prompt == extractPrompt("https", Buffered(rq))
           r == [rq EXCEPT !.prompt = prompt, !.ev = Append(@, "extract")]
       IN  IF Truthy(prompt) /\ LengthGT(prompt, MinPromptLength)
           THEN IF HasSubstring(prompt)
                THEN rq' = CallDetect(r) /\ UNCHANGED stats
                ELSE \E thr2 \in BOOLEAN : CatchHttps(r, stats, thr2)
           ELSE \E thr1, thr2 \in BOOLEAN : AllowHttps(r, thr1, thr2)
    /\ UNCHANGED <<pii, conn, certDir, tun, cm>>

\* part_001 128-164, up to the await of line 140
EndEarly ==
    /\ rq.pc = "buffering" /\ rq.variant = "early"
    /\ ~rq.consumed /\ rq.pending = <<>>
    /\ LET prompt == extractPrompt("early", Buffered(rq))
           r == [rq EXCEPT !.prompt = prompt, !.ev = Append(@, "extract")]
       IN  IF Truthy(prompt)
           THEN IF ~HasSubstring(prompt)
                THEN /\ rq' = [r EXCEPT !.pc = "done", !.rejected = TRUE,
                                        !.ev = Append(@, "threw")]
                     /\ UNCHANGED stats
                ELSE IF quickPIICheck(prompt.s)
                     THEN /\ rq' = CallDetect([r EXCEPT !.ev = Append(@, "quick")])
                          /\ UNCHANGED stats
                     ELSE \E thr1 \in BOOLEAN :
                             AllowEarly([r EXCEPT !.ev = Append(@, "quick")], thr1)
           ELSE \E thr1 \in BOOLEAN : AllowEarly(r, thr1)
    /\ UNCHANGED <<pii, conn, certDir, tun, cm>>

\* what fetch settles to in the pipeline: one outcome of each kind detectPII
\* tells apart
PipelineOutcomes ==
    {o \in FetchOutcomes :
        \/ o.kind = "reject"
        \/ o.status \in {200, 500}
           /\ o.shape \in {"malformed", "emptyCandidates", "text"}
           /\ o.text \in {<<>>, PII_DETECTED, PII_DETECTED \o <<"\n">>, NO_PII,
                           PII_DETECTED \o <<".">>}}

\* fetch settles to o, detectPII returns and the listener resumes after its await
FetchSettles(o) ==
    /\ rq.pc = "awaitDetect"
    /\ LET hasPII == detectPII(o)
           r == [rq EXCEPT !.verdict = hasPII, !.ev = Append(@, "verdict")]
       IN  CASE rq.variant = "connect" ->
                  IF hasPII = "true" THEN Block(r)
                  ELSE \E thr1, thr2 \in BOOLEAN : AllowConnect(r, thr1, thr2)
             [] rq.variant = "https" ->
                  IF hasPII = "true" THEN Block(r)
                  ELSE \E thr1, thr2 \in BOOLEAN : AllowHttps(r, thr1, thr2)
             [] rq.variant = "early" ->
                  IF hasPII = "true" THEN \E headersSent \in BOOLEAN : BlockEarly(r, headersSent)
                  ELSE \E thr1 \in BOOLEAN : AllowEarly(r, thr1)
    /\ UNCHANGED <<pii, conn, certDir, tun, cm>>

(***************************************************************************)
(* The CONNECT router of the CONNECT revision (server.js 228-293).         *)
(*                                                                         *)
(* certDir holds the files of certificates/: [host, ext, state] with       *)
(* state "ok", "unreadable" (it exists, readFileSync throws) or "garbage"  *)
(* (it reads, but holds no PEM certificate or key).                        *)
(* conn.log is what the proxy did to the client socket, in order:          *)
(*   "200", "500" (a response written), "tls" (the server-side TLS socket  *)
(*   set up on it), "end" (clientSocket.end), "destroy".                   *)
(* conn.up is what it did to the upstream socket of a tunnel.              *)
(* conn.leaf holds the certificate the TLS socket presents (258-270).      *)
(***************************************************************************)
File(h, e, st) == [host |-> h, ext |-> e, state |-> st]

\* fs.existsSync(certificates/<h>.<e>)
existsSync(dir, h, e) == \E f \in dir : f.host = h /\ f.ext = e

\* fs.readFileSync(path): the file of that name
readFileSync(dir, h, e) == CHOOSE f \in dir : f.host = h /\ f.ext = e

\* fs.readFileSync(certificates/<h>.<e>) returns (it throws otherwise)
Readable(dir, h, e) == \E f \in dir : f.host = h /\ f.ext = e /\ f.state # "unreadable"

\* https.createServer accepts what was read as a certificate or key
ValidPem(dir, h, e) == \E f \in dir : f.host = h /\ f.ext = e /\ f.state = "ok"

\* the platforms CertificateManager.setup provisions (part_000 129)
setupPlatforms == {HostChatOpenai, HostClaude, HostBard, HostCopilot}

\* certificates/ after a complete setup run
SetupDir == {File(h, e, "ok") : h \in setupPlatforms, e \in {"crt", "key"}}

\* the same with file e of platform h missing, unreadable or garbage
Damaged(h, e) ==
    {(SetupDir \ {File(h, e, "ok")}) \cup d :
        d \in {{}, {File(h, e, "unreadable")}, {File(h, e, "garbage")}}}

DamagedDirs == UNION {Damaged(HostClaude, e) : e \in {"crt", "key"}}

CertDirs == {SetupDir} \cup DamagedDirs

\* hostnames a client may name in CONNECT host:port
ConnectHosts ==
    aiPlatforms
    \cup {<<"w", "w", "w", ".">> \o HostClaude,
          <<"n", "o", "t">> \o HostClaude,
          HostClaude \o <<".", "e", "v", "i", "l", ".", "c", "o", "m">>,
          HostExample}

\* bound: CONNECT requests handled one after the other in one run
MaxConnections == 2

\* server.js 229-241: handleConnect routes by substring containment
handleConnectRoute(hostname) ==
    IF isAIPlatform(aiPlatforms, hostname) THEN "intercept" ELSE "tunnel"

\* server.js 229-241 with the call of handleRegularConnect up to net.connect
\* (277): the 'connect' event of the proxy port
HandleConnect(hostname) ==
    /\ conn.pc = "idle"
    /\ conn.n < MaxConnections
    /\ conn' = [IdleConn EXCEPT
                   !.n = conn.n + 1,
                   !.hostname = hostname,
                   !.route = handleConnectRoute(hostname),
                   !.pc = IF handleConnectRoute(hostname) = "intercept"
                          THEN "aiConnect" ELSE "connecting"]
    /\ UNCHANGED <<pii, stats, rq, certDir, tun, cm>>

\* one certificate for every connection (as server.js 609-610 loads it)
certPathFixed(hostname) == HostChatOpenai

\* server.js 245-246: the files are named after the hostname of the CONNECT request
certPath(hostname) == hostname

\* server.js 255-272: the 200 is written, then the TLS socket is set up
InterceptedLogTlsFirst == <<"tls", "200">>

InterceptedLog == <<"200", "tls">>

\* server.js 243-273: handleAIConnect, which runs to its end in one turn.
\* tlsThrows: the construction of the TLS socket (266-270) throws.
HandleAIConnect(tlsThrows) ==
    /\ conn.pc = "aiConnect"
    /\ LET h == certPath(conn.hostname)
       IN  IF ~existsSync(certDir, h, "crt") \/ ~existsSync(certDir, h, "key")
           THEN conn' = [conn EXCEPT !.pc = "closed", !.log = @ \o <<"500", "end">>,
                                     !.failed = "before200"]
           ELSE IF ~Readable(certDir, h, "crt") \/ ~Readable(certDir, h, "key")
                   \/ ~ValidPem(certDir, h, "crt") \/ ~ValidPem(certDir, h, "key")
                   \/ tlsThrows
                THEN \* readFileSync, https.createServer or TLSSocket throws after
                     \* line 255; nothing catches it
                     conn' = [conn EXCEPT !.pc = "uncaught", !.log = Append(@, "200"),
                                          !.failed = "after200"]
                ELSE conn' = [conn EXCEPT !.pc = "tls", !.log = @ \o InterceptedLog,
                                          !.leaf = {readFileSync(certDir, h, "crt")}]
    /\ UNCHANGED <<pii, stats, rq, certDir, tun, cm>>

\* server.js 277-282: the connect callback of handleRegularConnect
UpstreamConnected ==
    /\ conn.pc = "connecting"
    /\ conn' = [conn EXCEPT !.pc = "tunnel", !.log = Append(@, "200"),
                            !.up = @ \o <<"head", "pipe">>]
    /\ UNCHANGED <<pii, stats, rq, certDir, tun, cm>>

\* server.js 284-287: serverSocket 'error', before the connection is made
\* (refused, unreachable, unknown host) or after
UpstreamError ==
    /\ conn.pc \in {"connecting", "tunnel"}
    /\ conn' = [conn EXCEPT !.pc = "closed", !.log = Append(@, "end"),
                            !.failed = IF conn.pc = "connecting" THEN "before200"
                                       ELSE "after200"]
    /\ UNCHANGED <<pii, stats, rq, certDir, tun, cm>>

\* server.js 289-292: clientSocket 'error'
ClientError ==
    /\ conn.pc \in {"connecting", "tunnel"}
    /\ conn' = [conn EXCEPT !.pc = "closed", !.up = Append(@, "end")]
    /\ UNCHANGED <<pii, stats, rq, certDir, tun, cm>>

\* the connection is over; the proxy port accepts the next CONNECT (server.js 305)
NextConnection ==
    /\ conn.pc \in {"closed", "tls", "tunnel"}
    /\ conn' = [IdleConn EXCEPT !.n = conn.n]
    /\ UNCHANGED <<pii, stats, rq, certDir, tun, cm>>

InitConnect ==
    /\ conn = IdleConn
    /\ certDir \in CertDirs
    /\ tun = OffTunnel
    /\ cm = OffCM
    /\ pii = NoCall
    /\ stats = ZeroStats
    /\ rq = IdleRequest

NextConnect ==
    \/ \E hostname \in ConnectHosts : HandleConnect(hostname)
    \/ \E tlsThrows \in BOOLEAN : HandleAIConnect(tlsThrows)
    \/ UpstreamConnected
    \/ UpstreamError
    \/ ClientError
    \/ NextConnection

SpecConnect == InitConnect /\ [][NextConnect]_vars


(***************************************************************************)
(* The tunnel relay: handleRegularConnect (server.js 275-293)              *)
(*                                                                         *)
(* tun.cs is clientSocket and tun.us is serverSocket.  sentC is what the   *)
(* client sent after its CONNECT request (the bytes of head first), cBuf   *)
(* the part of it that waits unread in clientSocket, toUp what was written *)
(* to serverSocket; sentU, uBuf and toCl are the other direction, where    *)
(* "200" in toCl stands for the line 'HTTP/1.1 200 Connection Established'.*)
(* cFin / uFin: the peer has closed its sending side.                      *)
(***************************************************************************)
\* bound: bytes a peer sends through one tunnel
MaxBytes == 2

Bytes == {"x", "y"}

\* what the HTTP parser had read past the CONNECT request
Heads == {<<>>, <<"h">>}

\* socket.end(): the writable side is closed, the readable side stays
End(s) == IF s.d THEN s ELSE [s EXCEPT !.w = FALSE]

\* a socket after an error: destroyed
Destroyed == [r |-> FALSE, w |-> FALSE, d |-> TRUE]

\* a socket is closed once destroyed or once both of its sides are closed
IsClosed(s) == s.d \/ (~s.r /\ ~s.w)

CanWrite(s) == s.w /\ ~s.d

\* a relay that answers the CONNECT request before the connection is made
TunnelStartAnswering(head) ==
    /\ tun.pc = "idle"
    /\ tun' = [tun EXCEPT !.pc = "connecting", !.head = head, !.sentC = head,
                          !.toCl = <<"200">>]
    /\ UNCHANGED <<pii, stats, rq, conn, certDir, cm>>

\* server.js 275-277: handleRegularConnect calls net.connect and registers the two
\* 'error' listeners
TunnelStart(head) ==
    /\ tun.pc = "idle"
    /\ tun' = [tun EXCEPT !.pc = "connecting", !.head = head, !.sentC = head]
    /\ UNCHANGED <<pii, stats, rq, conn, certDir, cm>>

\* server.js 278-279: the two writes of the connect callback, in program order
CallbackPipesFirst(t) ==
    [t EXCEPT !.toCl = IF CanWrite(t.cs) THEN Append(@, "200") ELSE @,
              !.toUp = IF CanWrite(t.us) THEN @ \o t.cBuf \o t.head ELSE @,
              !.cBuf = IF CanWrite(t.us) THEN <<>> ELSE @]

CallbackWrites(t) ==
    [t EXCEPT !.toCl = IF CanWrite(t.cs) THEN Append(@, "200") ELSE @,
              !.toUp = IF CanWrite(t.us) THEN @ \o t.head ELSE @]

\* server.js 277-282: the connect callback.  serverSocket.write after
\* serverSocket.end() (a client error came first) is an error on serverSocket: it is
\* destroyed and its 'error' listener ends clientSocket.  clientSocket.pipe on a
\* client that has ended already ends serverSocket.
ConnectCallback ==
    /\ tun.pc = "connecting"
    /\ ~tun.us.d
    /\ LET t == CallbackWrites(tun)
       IN  tun' = [t EXCEPT
                      !.pc = "established",
                      !.us = IF ~tun.us.w THEN Destroyed
                             ELSE IF ~tun.cs.r THEN End(@) ELSE @,
                      !.cs = IF ~tun.us.w THEN End(@) ELSE @]
    /\ UNCHANGED <<pii, stats, rq, conn, certDir, cm>>

\* the client sends a byte into the tunnel
ClientSends(b) ==
    /\ tun.pc \in {"connecting", "established"}
    /\ ~tun.cFin /\ ~IsClosed(tun.cs)
    /\ Len(tun.sentC) < MaxBytes
    /\ tun' = [tun EXCEPT !.sentC = Append(@, b), !.cBuf = Append(@, b)]
    /\ UNCHANGED <<pii, stats, rq, conn, certDir, cm>>

\* the target sends a byte into the tunnel
UpstreamSends(b) ==
    /\ tun.pc = "established"
    /\ ~tun.uFin /\ ~IsClosed(tun.us)
    /\ Len(tun.sentU) < MaxBytes
    /\ tun' = [tun EXCEPT !.sentU = Append(@, b), !.uBuf = Append(@, b)]
    /\ UNCHANGED <<pii, stats, rq, conn, certDir, cm>>

\* server.js 281: clientSocket.pipe(serverSocket) moves a chunk
PumpUp ==
    /\ tun.pc = "established"
    /\ tun.cBuf # <<>> /\ tun.cs.r /\ ~tun.cs.d
    /\ CanWrite(tun.us)
    /\ tun' = [tun EXCEPT !.toUp = Append(@, Head(tun.cBuf)), !.cBuf = Tail(@)]
    /\ UNCHANGED <<pii, stats, rq, conn, certDir, cm>>

\* server.js 280: serverSocket.pipe(clientSocket) moves a chunk
PumpDown ==
    /\ tun.pc = "established"
    /\ tun.uBuf # <<>> /\ tun.us.r /\ ~tun.us.d
    /\ CanWrite(tun.cs)
    /\ tun' = [tun EXCEPT !.toCl = Append(@, Head(tun.uBuf)), !.uBuf = Tail(@)]
    /\ UNCHANGED <<pii, stats, rq, conn, certDir, cm>>

\* the client closes its sending side
ClientFin ==
    /\ tun.pc \in {"connecting", "established", "failed"}
    /\ ~tun.cFin /\ ~IsClosed(tun.cs)
    /\ tun' = [tun EXCEPT !.cFin = TRUE]
    /\ UNCHANGED <<pii, stats, rq, conn, certDir, cm>>

\* the target closes its sending side
UpstreamFin ==
    /\ tun.pc = "established"
    /\ ~tun.uFin /\ ~IsClosed(tun.us)
    /\ tun' = [tun EXCEPT !.uFin = TRUE]
    /\ UNCHANGED <<pii, stats, rq, conn, certDir, cm>>

\* clientSocket reads end-of-stream.  Once piped (server.js 281) the pipe ends
\* serverSocket.  halfOpen: the socket was accepted with allowHalfOpen, so it does
\* not end itself.
ClientEnd(halfOpen) ==
    /\ tun.pc \in {"connecting", "established", "failed"}
    /\ tun.cFin /\ tun.cBuf = <<>> /\ tun.cs.r /\ ~tun.cs.d
    /\ tun' = [tun EXCEPT
                  !.cs = [@ EXCEPT !.r = FALSE, !.w = IF halfOpen THEN @ ELSE FALSE],
                  !.us = IF tun.pc = "established" THEN End(@) ELSE @]
    /\ UNCHANGED <<pii, stats, rq, conn, certDir, cm>>

\* serverSocket reads end-of-stream: the pipe (server.js 280) ends clientSocket;
\* serverSocket, made by net.connect without allowHalfOpen, ends itself
UpstreamEnd ==
    /\ tun.pc = "established"
    /\ tun.uFin /\ tun.uBuf = <<>> /\ tun.us.r /\ ~tun.us.d
    /\ tun' = [tun EXCEPT !.us = [@ EXCEPT !.r = FALSE, !.w = FALSE],
                          !.cs = End(@)]
    /\ UNCHANGED <<pii, stats, rq, conn, certDir, cm>>

\* server.js 289-292: clientSocket 'error' (the socket is destroyed by the error)
ClientSocketError ==
    /\ tun.pc \in {"connecting", "established"}
    /\ ~IsClosed(tun.cs)
    /\ tun' = [tun EXCEPT !.cs = Destroyed, !.us = End(@)]
    /\ UNCHANGED <<pii, stats, rq, conn, certDir, cm>>

\* server.js 284-287: serverSocket 'error' (the socket is destroyed by the error)
ServerSocketError ==
    /\ tun.pc \in {"connecting", "established"}
    /\ ~IsClosed(tun.us)
    /\ tun' = [tun EXCEPT !.us = Destroyed, !.cs = End(@),
                          !.pc = IF tun.pc = "connecting" THEN "failed" ELSE @]
    /\ UNCHANGED <<pii, stats, rq, conn, certDir, cm>>

InitTunnel ==
    /\ tun = [OffTunnel EXCEPT !.pc = "idle"]
    /\ conn = OffConn
    /\ certDir = {}
    /\ cm = OffCM
    /\ pii = NoCall
    /\ stats = ZeroStats
    /\ rq = IdleRequest

\* what the proxy does on its own once the input is there
TunnelSteps ==
    \/ ConnectCallback
    \/ PumpUp
    \/ PumpDown
    \/ \E halfOpen \in BOOLEAN : ClientEnd(halfOpen)
    \/ UpstreamEnd

NextTunnel ==
    \/ \E head \in Heads : TunnelStart(head)
    \/ TunnelSteps
    \/ \E b \in Bytes : ClientSends(b)
    \/ \E b \in Bytes : UpstreamSends(b)
    \/ ClientFin
    \/ UpstreamFin
    \/ ClientSocketError
    \/ ServerSocketError

SpecTunnel == InitTunnel /\ [][NextTunnel]_vars

\* the proxy's own steps are taken, and each peer closes its sending side in the
\* end; no peer is obliged to send, and no socket is obliged to fail
SpecTunnelFair ==
    SpecTunnel /\ WF_vars(TunnelSteps) /\ WF_vars(ClientFin) /\ WF_vars(UpstreamFin)


(***************************************************************************)
(* The certificate manager (src/unnamed/part_000)                          *)
(*                                                                         *)
(* certDir is the directory certificates/.  A file written by the manager  *)
(* is [host, ext, state, key, signer, cn, san]: key names the key pair the *)
(* file belongs to (forge.pki.rsa.generateKeyPair gives a fresh one at     *)
(* each call, numbered by cm.keys), signer the key pair that signed a      *)
(* certificate.  cm.procs[p] is one process running setup(); the calls of  *)
(* fs are its steps, so that two processes interleave between them.        *)
(* cm.gen[h] counts the key pairs generated for h, cm.dir0 is the          *)
(* directory as the first run found it.                                    *)
(***************************************************************************)
\* bound: runs of setup() started in one behaviour
MaxSetupRuns == 2

Procs == {"p1", "p2"}

CaName == <<"c", "a">>

\* part_000 31-33: the subject of the root certificate
CaSubject == <<"A", "I", " ", "P", "r", "o", "x", "y", " ", "P", "r", "o", "t", "e", "c",
               "t", "o", "r", " ", "C", "A">>

\* part_000 129: the platforms setup provisions, in order
platforms == <<HostChatOpenai, HostClaude, HostBard, HostCopilot>>

\* part_000 94-103: subjectAltName of a server certificate
altNames(hostname) == {hostname, <<"*", ".">> \o hostname}

\* part_000 24-58: the root certificate, self-signed
CaCrt(k) ==
    [host |-> CaName, ext |-> "crt", state |-> "ok", key |-> k, signer |-> k,
     cn |-> CaSubject, san |-> {}]

\* part_000 59: a private key as PEM
KeyFile(h, k) ==
    [host |-> h, ext |-> "key", state |-> "ok", key |-> k, signer |-> 0,
     cn |-> <<>>, san |-> {}]

\* part_000 80-109: the server certificate for hostname, signed with the root key
ServerCrt(hostname, k, caKey) ==
    [host |-> hostname, ext |-> "crt", state |-> "ok", key |-> k, signer |-> caKey,
     cn |-> hostname, san |-> altNames(hostname)]

\* fs.writeFileSync(path, content) replaces the file
writeFileSync(dir, f) ==
    {g \in dir : ~(g.host = f.host /\ g.ext = f.ext)} \cup {f}

\* part_000 124: if (!fs.existsSync(caPath))
NeedsCA(dir) == ~existsSync(dir, CaName, "crt")

\* part_000 133 without the test
NeedsServerCertAlways(dir, platform) == TRUE

\* part_000 133: if (!fs.existsSync(certPath))
NeedsServerCert(dir, platform) == ~existsSync(dir, platform, "crt")

\* certificates/ as an earlier complete run of setup left it: root key pair 1,
\* server key pairs 2..5
EarlierDir ==
    {CaCrt(1), KeyFile(CaName, 1)}
    \cup {ServerCrt(platforms[i], i + 1, 1) : i \in 1 .. Len(platforms)}
    \cup {KeyFile(platforms[i], i + 1) : i \in 1 .. Len(platforms)}

Without(dir, h, exts) == {f \in dir : ~(f.host = h /\ f.ext \in exts)}

\* the directories a first run may find: nothing, or what an earlier run wrote,
\* whole or without the root files or the root key (a run that was stopped between
\* lines 61 and 62, a file that was removed), and whole or without the files of
\* claude.ai or its key
StartDirs ==
    {{}}
    \cup {Without(Without(EarlierDir, CaName, ca), HostClaude, leaf) :
             ca \in {{}, {"key"}, {"crt", "key"}},
             leaf \in {{}, {"key"}, {"crt", "key"}}}

IdleProc == [pc |-> "idle", i |-> 1, k |-> 0, ca |-> 0]

IdleCM(dir) ==
    [procs |-> [p \in Procs |-> IdleProc], keys |-> Len(platforms) + 1, runs |-> 0,
     gen |-> [h \in {CaName} \cup setupPlatforms |-> 0], dir0 |-> dir]

Running(p) == cm.procs[p].pc \notin {"idle", "done", "threw"}

\* the position of a run after the platform at index i was dealt with
NextPlatform(pr) ==
    IF pr.i = Len(platforms) THEN [pr EXCEPT !.pc = "done"]
    ELSE [pr EXCEPT !.pc = "checkLeaf", !.i = pr.i + 1]

\* part_000 143-147: a process calls setup()
SetupStart(p) ==
    /\ ~Running(p)
    /\ cm.runs < MaxSetupRuns
    /\ cm' = [cm EXCEPT !.procs[p] = [IdleProc EXCEPT !.pc = "checkCA"],
                        !.runs = @ + 1]
    /\ UNCHANGED <<pii, stats, rq, conn, certDir, tun>>

\* the same when no other run of setup is in progress
SetupStartAlone(p) ==
    /\ \A q \in Procs : ~Running(q)
    /\ SetupStart(p)

\* part_000 123-126 and 21: the test for ca.crt; generateCA makes its key pair
CheckCA(p) ==
    /\ cm.procs[p].pc = "checkCA"
    /\ IF NeedsCA(certDir)
       THEN cm' = [cm EXCEPT !.procs[p].pc = "writeCaCrt", !.procs[p].k = cm.keys + 1,
                             !.keys = @ + 1, !.gen[CaName] = @ + 1]
       ELSE cm' = [cm EXCEPT !.procs[p].pc = "checkLeaf"]
    /\ UNCHANGED <<pii, stats, rq, conn, certDir, tun>>

\* part_000 61: fs.writeFileSync(ca.crt)
WriteCaCrt(p) ==
    /\ cm.procs[p].pc = "writeCaCrt"
    /\ certDir' = writeFileSync(certDir, CaCrt(cm.procs[p].k))
    /\ cm' = [cm EXCEPT !.procs[p].pc = "writeCaKey"]
    /\ UNCHANGED <<pii, stats, rq, conn, tun>>

\* part_000 62: fs.writeFileSync(ca.key)
WriteCaKey(p) ==
    /\ cm.procs[p].pc = "writeCaKey"
    /\ certDir' = writeFileSync(certDir, KeyFile(CaName, cm.procs[p].k))
    /\ cm' = [cm EXCEPT !.procs[p].pc = "checkLeaf"]
    /\ UNCHANGED <<pii, stats, rq, conn, tun>>

\* part_000 131-135: the test for <platform>.crt
CheckLeaf(p) ==
    /\ cm.procs[p].pc = "checkLeaf"
    /\ IF NeedsServerCert(certDir, platforms[cm.procs[p].i])
       THEN cm' = [cm EXCEPT !.procs[p].pc = "loadCA"]
       ELSE cm' = [cm EXCEPT !.procs[p] = NextPlatform(@)]
    /\ UNCHANGED <<pii, stats, rq, conn, certDir, tun>>

\* part_000 71-77: generateServerCert reads ca.crt and ca.key (readFileSync throws
\* when one is missing, which ends setup) and makes the server key pair
LoadCA(p) ==
    /\ cm.procs[p].pc = "loadCA"
    /\ IF existsSync(certDir, CaName, "crt") /\ existsSync(certDir, CaName, "key")
       THEN cm' = [cm EXCEPT !.procs[p].pc = "writeLeafCrt",
                             !.procs[p].ca = readFileSync(certDir, CaName, "key").key,
                             !.procs[p].k = cm.keys + 1,
                             !.keys = @ + 1,
                             !.gen[platforms[cm.procs[p].i]] = @ + 1]
       ELSE cm' = [cm EXCEPT !.procs[p].pc = "threw"]
    /\ UNCHANGED <<pii, stats, rq, conn, certDir, tun>>

\* part_000 115: fs.writeFileSync(certPath)
WriteLeafCrt(p) ==
    /\ cm.procs[p].pc = "writeLeafCrt"
    /\ LET pr == cm.procs[p]
       IN  certDir' = writeFileSync(certDir, ServerCrt(platforms[pr.i], pr.k, pr.ca))
    /\ cm' = [cm EXCEPT !.procs[p].pc = "writeLeafKey"]
    /\ UNCHANGED <<pii, stats, rq, conn, tun>>

\* part_000 116: fs.writeFileSync(keyPath), and on to the next platform
WriteLeafKey(p) ==
    /\ cm.procs[p].pc = "writeLeafKey"
    /\ LET pr == cm.procs[p]
       IN  certDir' = writeFileSync(certDir, KeyFile(platforms[pr.i], pr.k))
    /\ cm' = [cm EXCEPT !.procs[p] = NextPlatform(@)]
    /\ UNCHANGED <<pii, stats, rq, conn, tun>>

SetupStep(p) ==
    \/ CheckCA(p)
    \/ WriteCaCrt(p)
    \/ WriteCaKey(p)
    \/ CheckLeaf(p)
    \/ LoadCA(p)
    \/ WriteLeafCrt(p)
    \/ WriteLeafKey(p)

InitCert ==
    /\ certDir \in StartDirs
    /\ cm = IdleCM(certDir)
    /\ tun = OffTunnel
    /\ conn = OffConn
    /\ pii = NoCall
    /\ stats = ZeroStats
    /\ rq = IdleRequest

\* runs of setup one after the other
NextSetup ==
    \/ \E p \in Procs : SetupStartAlone(p)
    \/ \E p \in Procs : SetupStep(p)

SpecSetup == InitCert /\ [][NextSetup]_vars

\* runs of setup in processes that may overlap
NextCert ==
    \/ \E p \in Procs : SetupStart(p)
    \/ \E p \in Procs : SetupStep(p)

SpecCert == InitCert /\ [][NextCert]_vars

(***************************************************************************)
(* The proxy on the directory setup left: setup runs one after the other   *)
(* (npm run setup), then the proxy of the CONNECT revision is started and  *)
(* answers CONNECT requests from the files it finds in certificates/.      *)
(***************************************************************************)
\* part_000 138: setup ran to 'Certificate setup complete!'
SetupComplete ==
    /\ cm.runs >= 1
    /\ \A p \in Procs : cm.procs[p].pc \in {"idle", "done"}

\* server.js 302-309: start() registers the 'connect' listener and listens
Listen ==
    /\ conn.pc = "off"
    /\ \A p \in Procs : ~Running(p)
    /\ conn' = IdleConn
    /\ UNCHANGED <<pii, stats, rq, certDir, tun, cm>>

\* part_000 143-147, run before the proxy is started
SetupBeforeListen(p) ==
    /\ conn.pc = "off"
    /\ SetupStartAlone(p)

NextProxy ==
    \/ \E p \in Procs : SetupBeforeListen(p)
    \/ \E p \in Procs : SetupStep(p)
    \/ Listen
    \/ \E hostname \in ConnectHosts : HandleConnect(hostname)
    \/ \E tlsThrows \in BOOLEAN : HandleAIConnect(tlsThrows)
    \/ UpstreamConnected
    \/ UpstreamError
    \/ ClientError
    \/ NextConnection

SpecProxy == InitCert /\ [][NextProxy]_vars

(***************************************************************************)
(* The forwarders: a request handed to http-proxy-middleware, and what the *)
(* onError option of each forwarder does when the upstream request fails.  *)
(*                                                                         *)
(* rq.fwd is the forwarder, rq.tries the upstream requests opened for the  *)
(* request, rq.headersSent is res.headersSent, rq.resp the responses begun *)
(* on res in order ("upstream": the head the upstream sent; "500", "504":  *)
(* written by an error handler), rq.err the code of the error.             *)
(***************************************************************************)
Forwarders ==
    {<<"connect", "proxyRegularWebsite">>, <<"connect", "forwardRequest">>,
     <<"https", "proxyRequestWithBody">>, <<"https", "proxyRequest">>,
     <<"early", "forwardRequest">>, <<"early", "proxyRequest">>}

\* the codes of the 'error' event: the connection is refused, it is reset, a
\* write on it fails
ErrorCodes == {"ECONNREFUSED", "ECONNRESET", "EPIPE"}

\* server.js 161-166, 184-189: onError answers 500 unless the headers were sent
OnErrorGuarded(r) ==
    IF r.headersSent THEN r
    ELSE [r EXCEPT !.resp = Append(@, "500"), !.headersSent = TRUE]

\* server.js 578-581, 592-595: onError answers 500 whatever was sent; res.json
\* throws when the headers were sent, out of the 'error' listener
OnErrorUnguarded(r) ==
    IF r.headersSent THEN [r EXCEPT !.rejected = TRUE, !.ev = Append(@, "threw")]
    ELSE [r EXCEPT !.resp = Append(@, "500"), !.headersSent = TRUE]

\* part_001 205-214, 223-227: no onError option; the handler of the middleware
\* writes 504 or 500 by the code unless the headers were sent, and ends res
OnErrorDefault(r) ==
    IF r.headersSent THEN r
    ELSE [r EXCEPT !.resp = Append(@, IF r.err \in {"ECONNREFUSED", "ECONNRESET"}
                                      THEN "504" ELSE "500"),
                   !.headersSent = TRUE]

onError(r) ==
    CASE r.variant = "connect" -> OnErrorGuarded(r)
      [] r.variant = "https" -> OnErrorUnguarded(r)
      [] r.variant = "early" -> OnErrorDefault(r)

\* proxy(req, res) (server.js 170, 194, 583, 599; part_001 216, 228): one request
\* to the upstream is opened
ProxyCall(variant, fwd, method) ==
    /\ rq.pc = "idle"
    /\ rq.n < MaxRequests
    /\ rq' = [IdleRequest EXCEPT !.pc = "proxying", !.n = rq.n + 1, !.variant = variant,
                                 !.fwd = fwd, !.method = method, !.tries = 1,
                                 !.ev = <<"forward">>]
    /\ UNCHANGED <<pii, stats, conn, certDir, tun, cm>>

\* the upstream answers: its status line and headers are written to res
ProxyRes ==
    /\ rq.pc = "proxying" /\ ~rq.headersSent
    /\ rq' = [rq EXCEPT !.headersSent = TRUE, !.resp = Append(@, "upstream"),
                        !.status = "upstream"]
    /\ UNCHANGED <<pii, stats, conn, certDir, tun, cm>>

\* the upstream response was relayed to its end
ProxyEnd ==
    /\ rq.pc = "proxying" /\ rq.headersSent
    /\ rq' = [rq EXCEPT !.pc = "done"]
    /\ UNCHANGED <<pii, stats, conn, certDir, tun, cm>>

\* the upstream request emits 'error', before or after the response began (a
\* refused connection never answers)
ProxyError(code) ==
    /\ rq.pc = "proxying"
    /\ code = "ECONNREFUSED" => ~rq.headersSent
    /\ rq' = [onError([rq EXCEPT !.err = code]) EXCEPT !.pc = "done"]
    /\ UNCHANGED <<pii, stats, conn, certDir, tun, cm>>

InitForward ==
    /\ rq = IdleRequest
    /\ stats = ZeroStats
    /\ pii = NoCall
    /\ conn = OffConn
    /\ certDir = {}
    /\ tun = OffTunnel
    /\ cm = OffCM

NextForward ==
    \/ \E f \in Forwarders, method \in {"GET", "POST"} : ProxyCall(f[1], f[2], method)
    \/ ProxyRes
    \/ ProxyEnd
    \/ \E code \in ErrorCodes : ProxyError(code)
    \/ Finish

SpecForward == InitForward /\ [][NextForward]_vars

(***************************************************************************)
(* The inspection pipeline as a specification                              *)
(***************************************************************************)
InitInspect ==
    /\ rq = IdleRequest
    /\ stats = ZeroStats
    /\ pii = NoCall
    /\ conn = OffConn
    /\ certDir = {}
    /\ tun = OffTunnel
    /\ cm = OffCM

NextInspect ==
    \/ \E variant \in Variants, url \in Urls, host \in RequestHosts :
          Arrive(variant, "GET", url, host, FALSE, BodyNone)
    \/ \E variant \in Variants, url \in Urls, host \in RequestHosts,
          contentJson \in BOOLEAN, body \in Bodies :
          Arrive(variant, "POST", url, host, contentJson, body)
    \/ ExpressJson
    \/ CatchAllConnect
    \/ ProxyHandlerHttps
    \/ ProxyHandlerEarly
    \/ OnData
    \/ EndConnect
    \/ EndHttps
    \/ EndEarly
    \/ \E o \in PipelineOutcomes : FetchSettles(o)
    \/ Finish

SpecInspect == InitInspect /\ [][NextInspect]_vars

\* the steps the proxy takes by itself once their event is due; a request arriving,
\* and fetch settling, are up to the client and to the remote classifier, and
\* detectPII arms no timer that would settle fetch in their place
ProxySteps ==
    \/ ExpressJson
    \/ CatchAllConnect
    \/ ProxyHandlerHttps
    \/ ProxyHandlerEarly
    \/ OnData
    \/ EndConnect
    \/ EndHttps
    \/ EndEarly
    \/ Finish

SpecInspectFair == SpecInspect /\ WF_vars(ProxySteps)

\* the same when the classifier always answers or fails in the end
SpecInspectSettling ==
    SpecInspectFair /\ WF_vars(\E o \in PipelineOutcomes : FetchSettles(o))

(***************************************************************************)
(* One call of detectPII on its own                                        *)
(***************************************************************************)
\* pii-detector.js 25-35: fetch is issued and awaited
DetectCall ==
    /\ pii.pc = "ready"
    /\ pii' = [pii EXCEPT !.pc = "fetching"]
    /\ UNCHANGED <<stats, rq, conn, certDir, tun, cm>>

\* pii-detector.js 37-50: fetch has settled to o and detectPII returns
DetectReturn(o) ==
    /\ pii.pc = "fetching"
    /\ pii' = [pc |-> "returned", outcome |-> o, result |-> detectPII(o)]
    /\ UNCHANGED <<stats, rq, conn, certDir, tun, cm>>

InitPII ==
    /\ pii = [NoCall EXCEPT !.pc = "ready"]
    /\ stats = ZeroStats
    /\ rq = IdleRequest
    /\ conn = OffConn
    /\ certDir = {}
    /\ tun = OffTunnel
    /\ cm = OffCM

NextPII ==
    \/ DetectCall
    \/ \E o \in FetchOutcomes : DetectReturn(o)

SpecPII == InitPII /\ [][NextPII]_vars

AllWhite(s) == \A i \in 1 .. Len(s) : s[i] \in WhiteSpace

\* the text is PII_DETECTED with nothing but white space before and after it
IsPaddedToken(text) ==
    \E i \in 0 .. Len(text), j \in 0 .. Len(text) :
        /\ i + Len(PII_DETECTED) + j = Len(text)
        /\ AllWhite(SubSeq(text, 1, i))
        /\ SubSeq(text, i + 1, i + Len(PII_DETECTED)) = PII_DETECTED
        /\ AllWhite(SubSeq(text, Len(text) - j + 1, Len(text)))

\* C3: detectPII never throws, and returns true only when the call succeeded with
\* a 2xx status and the answer text is PII_DETECTED up to surrounding white space;
\* every other outcome (rejection, non-2xx status, malformed or incomplete
\* structure, any other text) returns false.
C3_DetectOnlyOnExactToken ==
    pii.pc = "returned" =>
        /\ pii.result \in {"true", "false"}
        /\ pii.result = "true" <=>
              /\ pii.outcome.kind = "response"
              /\ pii.outcome.status \in 200 .. 299
              /\ pii.outcome.shape = "text"
              /\ IsPaddedToken(pii.outcome.text)

\* C3 witness: an answer with white space around the token was classified as PII
C3_PaddedTokenDetected ==
    /\ pii.pc = "returned" /\ pii.result = "true"
    /\ Len(pii.outcome.text) > Len(PII_DETECTED)


(***************************************************************************)
(* Properties of the inspection pipeline                                   *)
(***************************************************************************)
Forwards == Count(rq.ev, "forward")
DetectCalls == Count(rq.ev, "detect")
\* the 'end' listener of an inspected chat POST has run
Inspected == Count(rq.ev, "extract") = 1
ErrorRaised == Count(rq.ev, "catch") + Count(rq.ev, "threw") > 0
Delta(field) == stats[field] - rq.stats0[field]

LastCallThrew ==
    /\ Len(rq.ev) >= 2
    /\ rq.ev[Len(rq.ev) - 1] = "forward"
    /\ rq.ev[Len(rq.ev)] = "threw"

\* C2: when an error is raised in the inspection path of a chat POST that was not
\* found to hold PII, the request is still forwarded upstream, requestsAllowed is
\* incremented (once), requestsBlocked and piiDetections are unchanged, and the
\* listener does not fail.  (The case in which the forwarder call of the fail-open
\* path throws as well is left out: nothing could forward the request then.)
C2_FailOpen ==
    (rq.pc = "done" /\ Inspected /\ ErrorRaised /\ rq.verdict # "true"
                   /\ ~LastCallThrew) =>
        /\ rq.status = "upstream"
        /\ ~rq.rejected
        /\ Delta("requestsAllowed") = 1
        /\ Delta("requestsBlocked") = 0
        /\ Delta("piiDetections") = 0

\* C4: every call of detectPII eventually returns, also when the remote
\* classifier never answers.
C4_DetectReturns == (rq.pc = "awaitDetect") ~> (rq.pc # "awaitDetect")

\* C5: the remote classification call is issued only for a text that the regex
\* pre-filter quickPIICheck matches.
C5_RemoteCallOnlyAfterPrefilter ==
    DetectCalls > 0 => (rq.prompt.t = "str" /\ quickPIICheck(rq.prompt.s))

InServerJs == rq.variant \in {"connect", "https"}
EndListenerRan == Inspected /\ InServerJs /\ rq.prompt.t = "str"
Skipped == DetectCalls = 0

\* C6 as claimed: in handleAIPlatform and handleChatRequest of server.js,
\* classification is skipped exactly when the extracted text has fewer than 10
\* characters, and detectPII is invoked for every text of 10 characters or more.
C6_SkipBelowTen ==
    EndListenerRan => (Skipped <=> rq.prompt.n < 10)

\* C6 as amended: classification is skipped exactly when the extracted text has at
\* most 10 characters (the request is then forwarded and counted in
\* requestsAllowed, never blocked); detectPII is invoked for every extracted text
\* of 11 characters or more.
C6_SkipUpToTen ==
    EndListenerRan =>
        /\ Skipped <=> rq.prompt.n <= 10
        /\ (Skipped /\ rq.pc = "done") =>
              /\ Forwards >= 1
              /\ Delta("requestsAllowed") >= 1
              /\ Delta("requestsBlocked") = 0
              /\ Delta("piiDetections") = 0
              /\ rq.status # "403"

\* C6 witness: a text of exactly 10 characters was skipped and forwarded
C6_TenSkipped ==
    /\ EndListenerRan /\ rq.pc = "done" /\ rq.prompt.n = 10 /\ Skipped /\ Forwards = 1

(***************************************************************************)
(* Properties of the CONNECT router                                        *)
(***************************************************************************)
\* hostname is a platform hostname or ends with "." followed by one
ExactOrSuffix(hostname) ==
    \E platform \in aiPlatforms :
        \/ hostname = platform
        \/ /\ Len(hostname) > Len(platform)
           /\ SubSeq(hostname, Len(hostname) - Len(platform), Len(hostname))
                 = <<".">> \o platform

\* C7: a CONNECT target is routed to interception only if it equals a platform
\* hostname or ends with "." followed by one; any other hostname, also one that
\* contains a platform name, is routed to the plain tunnel.
C7_ExactOrSuffixRouting ==
    conn.route # "none" =>
        (conn.route = "intercept" <=> ExactOrSuffix(conn.hostname))

Written(e) == Count(conn.log, e)

\* C8: on an intercepted CONNECT the 200 is written at most once, exactly once
\* when the connection goes on to TLS, and before the TLS socket is set up; no TLS
\* socket is set up on a connection that was not sent the 200.
C8_OkOnceBeforeTls ==
    /\ Written("200") <= 1
    /\ \A i \in 1 .. Len(conn.log) :
          conn.log[i] = "tls" => \E j \in 1 .. (i - 1) : conn.log[j] = "200"
    /\ (conn.route = "intercept" /\ conn.pc \in {"tls", "uncaught"}) => Written("200") = 1
    /\ (conn.route = "intercept" /\ Written("500") > 0) => Written("200") = 0

\* C8 witness: an intercepted connection was sent the 200 and then set up for TLS
C8_TlsAfterOk ==
    /\ conn.route = "intercept" /\ conn.pc = "tls"
    /\ conn.log = <<"200", "tls">>

LastLog == IF conn.log = <<>> THEN "none" ELSE conn.log[Len(conn.log)]

\* C9: when the leaf certificate of an intercepted CONNECT cannot be obtained
\* before the 200 was sent, the client gets a plaintext 5xx, no 200, and the socket
\* is closed; when it fails after the 200 was sent, the proxy resets (closes) the
\* client connection.
C9_CertFailureClosesClient ==
    /\ (conn.route = "intercept" /\ conn.failed = "before200") =>
          conn.log = <<"500", "end">>
    /\ (conn.route = "intercept" /\ conn.failed = "after200") =>
          LastLog \in {"end", "destroy"}

\* C10: when the upstream connection of a tunnel fails before the 200 was sent the
\* client is sent a 5xx before its socket is closed; when it fails after the 200,
\* the client connection is closed.
C10_TunnelFailureAnswered ==
    /\ (conn.route = "tunnel" /\ conn.failed = "before200") =>
          /\ Written("500") = 1
          /\ LastLog \in {"end", "destroy"}
    /\ (conn.route = "tunnel" /\ conn.failed = "after200") =>
          LastLog \in {"end", "destroy"}

(***************************************************************************)
(* Properties of the tunnel relay                                          *)
(***************************************************************************)
TunnelRuns == tun.pc \in {"connecting", "established", "failed"}

\* one end has reached end-of-stream, has failed or is closed
OneEndDown ==
    TunnelRuns /\ (~tun.cs.r \/ ~tun.us.r \/ IsClosed(tun.cs) \/ IsClosed(tun.us))

BothClosed == IsClosed(tun.cs) /\ IsClosed(tun.us)

\* C11: once either end of a pending or established tunnel reaches end-of-stream,
\* fails or is closed, the client socket and the upstream socket are both closed
\* in the end.
C11_BothEndsClosed == OneEndDown ~> BothClosed

IsPrefix(p, q) == Len(p) <= Len(q) /\ SubSeq(q, 1, Len(p)) = p

\* C12: on the tunnel path what is written to upstream is, in order, what the
\* client sent after its CONNECT request, the bytes of head first; what is written
\* to the client is the 200 followed, in order, by what upstream sent; while both
\* sockets are open nothing is lost, added or changed (the relay writes nothing
\* else, so no TLS record of its own).
C12_TunnelBytesUnchanged ==
    /\ IsPrefix(tun.toUp, tun.sentC)
    /\ tun.toCl # <<>> => Head(tun.toCl) = "200" /\ IsPrefix(Tail(tun.toCl), tun.sentU)
    /\ (tun.pc = "established" /\ tun.cs = OpenSocket /\ tun.us = OpenSocket) =>
          /\ tun.toUp \o tun.cBuf = tun.sentC
          /\ tun.toCl \o tun.uBuf = <<"200">> \o tun.sentU

\* C12 witness: a head byte and a later client byte reached upstream, and the
\* bytes of upstream reached the client behind the 200
C12_BytesRelayed ==
    /\ tun.pc = "established" /\ tun.head # <<>>
    /\ Len(tun.sentC) = MaxBytes /\ tun.toUp = tun.sentC
    /\ Len(tun.sentU) = MaxBytes /\ tun.toCl = <<"200">> \o tun.sentU

(***************************************************************************)
(* Properties of the pass-through path                                     *)
(***************************************************************************)
\* a finished request to an intercepted host that is not a chat submission
PassThrough ==
    /\ rq.pc = "done"
    /\ rq.host # <<>> /\ isAIPlatform(platformsOf(rq.variant), rq.host)
    /\ ~(rq.method = "POST" /\ isChatEndpoint(rq.variant, rq.url))

\* C13: a request to an intercepted host that is not a POST to a chat endpoint
\* is forwarded upstream, its body is not read into memory by the proxy, neither
\* quickPIICheck nor detectPII is called, and the three counters are unchanged.
C13_PassThroughUntouched ==
    PassThrough =>
        /\ rq.status = "upstream" /\ Forwards = 1
        /\ ~rq.consumed /\ rq.buf = <<>>
        /\ DetectCalls = 0 /\ Count(rq.ev, "quick") = 0
        /\ stats = rq.stats0

(***************************************************************************)
(* Properties of prompt extraction                                         *)
(***************************************************************************)
\* the body parsed as an object
Parsed == rq.body.kind = "object"

\* the first of prompt, input, text, query that is present
FirstField(body) ==
    IF Truthy(body.prompt) THEN body.prompt
    ELSE IF Truthy(body.input) THEN body.input
    ELSE IF Truthy(body.text) THEN body.text
    ELSE body.query

\* C14: extractPrompt of server.js applies its rules in the order messages
\* (content of the last element), prompt, input, text, query and returns the value
\* of the first rule that matches; a body with only a query member yields it.
C14_ExtractionOrder ==
    (Inspected /\ InServerJs /\ Parsed) =>
        /\ (rq.body.messagesKind = "array" /\ Truthy(LastContent(rq.body))) =>
              rq.prompt = LastContent(rq.body)
        /\ (rq.body.messagesKind = "undef" /\ Truthy(FirstField(rq.body))) =>
              rq.prompt = FirstField(rq.body)
\* no extraction rule yields a non-empty text for the body
NoRuleYields(body) ==
    \/ body.kind # "object"
    \/ /\ body.messagesKind = "array" => ~Truthy(LastContent(body))
       /\ ~Truthy(FirstField(body))

\* C15: when the buffered body does not parse, or parses but no extraction rule
\* yields a non-empty text, the text handed to the length check and the classifier
\* is the first 1000 characters of the buffered raw body.
C15_FallbackToRawBody ==
    (Inspected /\ NoRuleYields(rq.body)) =>
        rq.prompt = Str(Substring0(rq.buf, SubstringLimit))

(***************************************************************************)
(* Properties of the buffered body                                         *)
(***************************************************************************)
\* the length of the longest body a client sends
LongestBody ==
    CHOOSE n \in {Len(b.raw) : b \in Bodies} : \A b \in Bodies : Len(b.raw) <= n

\* C16: the body data held in memory for an inspected request stays below a
\* fixed maximum whatever the client sends: a cap takes effect before the longest
\* body is accumulated whole.
C16_BufferCapped == Len(rq.buf) < LongestBody

\* an inspected request that was found Clear, by the classifier or by the length
\* test, with no error on the way
ClearDone == rq.pc = "done" /\ Inspected /\ rq.verdict # "true" /\ ~ErrorRaised

\* C17: for an inspected chat POST found Clear the body written to upstream is, byte
\* for byte, the body the client sent, however it was cut into chunks; the
\* Content-Length sent upstream is its length in bytes; requestsAllowed grows by 1.
C17_ClearBodyForwardedUnchanged ==
    ClearDone =>
        /\ rq.sent = rq.body.raw
        /\ rq.clen = Len(rq.body.raw)
        /\ Delta("requestsAllowed") = 1

(***************************************************************************)
(* Properties of the certificate manager                                   *)
(***************************************************************************)
FilesOf(dir, h) == {f \in dir : f.host = h}

NoRunInProgress == \A p \in Procs : ~Running(p)

\* C18: in runs of setup one after the other, a platform that has a server
\* certificate gets no new key pair and its stored files are not written again, no
\* platform gets more than one key pair, and every server certificate on disk has
\* commonName = hostname and subjectAltName = {hostname, "*." hostname}.
C18_LeafIssuedOnce ==
    /\ \A h \in setupPlatforms :
          /\ existsSync(cm.dir0, h, "crt") =>
                cm.gen[h] = 0 /\ FilesOf(certDir, h) = FilesOf(cm.dir0, h)
          /\ cm.gen[h] <= 1
    /\ \A f \in certDir :
          (f.ext = "crt" /\ f.host # CaName) =>
              f.cn = f.host /\ f.san = {f.host, <<"*", ".">> \o f.host}

\* C18 witness: after two runs the certificate of claude.ai, missing at first, was
\* issued once and the one of bard.google.com, present at first, was not reissued
C18_SecondRunReuses ==
    /\ cm.runs = MaxSetupRuns /\ NoRunInProgress
    /\ cm.gen[HostClaude] = 1 /\ existsSync(certDir, HostClaude, "crt")
    /\ cm.gen[HostBard] = 0 /\ existsSync(cm.dir0, HostBard, "crt")
\* the certificate and the key stored for h belong to the same key pair
SamePair(dir, h) ==
    (existsSync(dir, h, "crt") /\ existsSync(dir, h, "key")) =>
        readFileSync(dir, h, "crt").key = readFileSync(dir, h, "key").key

\* C19: when runs of setup overlap, at most one key pair is generated for a
\* platform, and once no run is in progress the stored certificate and key of each
\* platform belong to the same key pair.
C19_SingleIssuancePerHost ==
    \A h \in setupPlatforms :
        /\ cm.gen[h] <= 1
        /\ NoRunInProgress => SamePair(certDir, h)

\* C20: the root step of setup is idempotent: a root certificate and key that the
\* first run found are left untouched, at most one root key pair is generated, and
\* once a run has ended and none is in progress ca.crt and ca.key are both present
\* and belong to the same key pair.
C20_RootIdempotent ==
    /\ (existsSync(cm.dir0, CaName, "crt") /\ existsSync(cm.dir0, CaName, "key")) =>
          cm.gen[CaName] = 0 /\ FilesOf(certDir, CaName) = FilesOf(cm.dir0, CaName)
    /\ cm.gen[CaName] <= 1
    /\ (cm.runs >= 1 /\ NoRunInProgress) =>
          /\ existsSync(certDir, CaName, "crt") /\ existsSync(certDir, CaName, "key")
          /\ SamePair(certDir, CaName)

(***************************************************************************)
(* C21: the certificate presented on an intercepted connection names the   *)
(* hostname of that connection's CONNECT request: its commonName is the    *)
(* hostname and its subjectAltName holds the hostname (with the wildcard   *)
(* below it, and nothing else).                                            *)
(***************************************************************************)
C21_LeafNamesConnectHost ==
    \A f \in conn.leaf :
        /\ f.cn = conn.hostname
        /\ conn.hostname \in f.san
        /\ \A name \in f.san : name \in {conn.hostname, <<"*", ".">> \o conn.hostname}

\* a leaf written by setup is presented on a connection to its platform
C21_LeafPresented ==
    /\ conn.pc = "tls"
    /\ conn.leaf # {}
    /\ conn.hostname = HostClaude
    /\ cm.gen[HostClaude] >= 1


(***************************************************************************)
(* C22: when the upstream request of a forwarded request fails, one        *)
(* response is begun on res and no more: a 5xx when the headers were not   *)
(* sent yet, nothing further (no attempt at a second response) when they   *)
(* were; and one upstream request was opened for it (no retry).            *)
(***************************************************************************)
C22_OneResponseOnFailure ==
    (rq.pc = "done" /\ rq.err # "none") =>
        /\ Len(rq.resp) = 1
        /\ rq.resp[1] \in {"upstream", "500", "502", "504"}
        /\ ~rq.rejected
        /\ rq.tries = 1


(***************************************************************************)
(* C23: a chat POST for which the handler has registered its 'data' and    *)
(* 'end' listeners is answered or forwarded in the end, the handler        *)
(* running to its last step; checked with a classifier that always         *)
(* settles.                                                                *)
(***************************************************************************)
C23_InspectionTerminates == (rq.pc = "buffering") ~> (rq.pc = "done")


(***************************************************************************)
(* C24: a request is handed to an upstream forwarder at most once, and a   *)
(* request answered 403 is not handed to one at all.                       *)
(***************************************************************************)
C24_ForwardedAtMostOnce ==
    /\ Count(rq.ev, "forward") <= 1
    /\ Count(rq.ev, "respond403") > 0 => Count(rq.ev, "forward") = 0


(***************************************************************************)
(* C25: a chat POST whose 'end' listener has run to its end has added one  *)
(* to requestsBlocked + requestsAllowed, so that the sum counts the        *)
(* inspected requests that reached their outcome.                          *)
(***************************************************************************)
Decided(s) == s.requestsBlocked + s.requestsAllowed

C25_CountedExactlyOnce ==
    (rq.pc = "done" /\ Count(rq.ev, "extract") > 0) =>
        Decided(stats) = Decided(rq.stats0) + 1


(***************************************************************************)
(* C26: in the tunnel relay the 200 is written to the client only once the *)
(* upstream connection is made, and once at most; nothing is written to    *)
(* the client before it; nothing is written to upstream before the         *)
(* connection is made.                                                     *)
(***************************************************************************)
C26_TunnelAnswerOrder ==
    /\ tun.pc # "established" => tun.toCl = <<>> /\ tun.toUp = <<>>
    /\ Count(tun.toCl, "200") <= 1
    /\ tun.toCl # <<>> => Head(tun.toCl) = "200"

\* C26 witness: a client byte waited while the connection was made, and after the
\* 200 a byte of upstream reached the client
C26_AnsweredThenRelayed ==
    /\ tun.pc = "established"
    /\ tun.head = <<>> /\ tun.toUp # <<>>
    /\ Len(tun.toCl) >= 2


(***************************************************************************)
(* C27: once setup has run to its end, a CONNECT to a hostname of the      *)
(* proxy's platform list is not answered 500 for a missing certificate     *)
(* (checked for directories in which no key had been lost before setup).   *)
(***************************************************************************)
\* the directory the first run found held each platform's certificate with its key
PairedStart ==
    \A h \in setupPlatforms : existsSync(cm.dir0, h, "key") <=> existsSync(cm.dir0, h, "crt")

C27_PlatformsHaveLeaf ==
    (SetupComplete /\ PairedStart /\ conn.hostname \in aiPlatforms) =>
        Written("500") = 0


(***************************************************************************)
(* C28: once a run of setup has ended, on a directory an earlier run       *)
(* filled and from which root or server files were removed since, every    *)
(* server certificate on disk is signed by the key pair of the root        *)
(* certificate on disk.                                                    *)
(***************************************************************************)
C28_LeavesSignedByCurrentRoot ==
    (cm.runs >= 1 /\ NoRunInProgress /\ existsSync(certDir, CaName, "crt")) =>
        \A h \in setupPlatforms :
            existsSync(certDir, h, "crt") =>
                readFileSync(certDir, h, "crt").signer
                    = readFileSync(certDir, CaName, "crt").key


====
